---------------------------- MODULE Spec2Model ----------------------------
(***************************************************************************)
(* Model of the domain-decomposition interface machinery of                *)
(* examples/ddoper.hpp: the geometric face matcher, the interface-to-      *)
(* surface DOF map, the two injection operators and the constructor of     *)
(* DDMInterfaceOperator.                                                   *)
(*                                                                         *)
(* Coordinates are integers counted in units of 1e-13, so that the         *)
(* tolerance 1.0e-12 of the source is the integer 10 and the comparison    *)
(* fabs(a - b) > 1.0e-12 is exact.                                         *)
(***************************************************************************)
EXTENDS Integers, Sequences, FiniteSets, TLC

(***************************************************************************)
(* Bounds of the model                                                     *)
(***************************************************************************)
MaxFaceVerts == 2
MaxHeight == 3
MaxFull == 2
MaxSubdomains == 2
MaxInterfaces == 1
MaxLocalInterfaces == 1
MaxIfFaces == 2
MaxBdrElems == 2
MaxBdrFull == 2
MaxSdInterfaces == 2

(***************************************************************************)
(* Program constants                                                       *)
(***************************************************************************)
\* 1.0e-12 in units of 1e-13 (ddoper.hpp:53 and vertexTol, ddoper.hpp:105)
VertexTol == 10
\* the k<3 / l<3 coordinate loops
SpaceDim3 == 3

Abs(a) == IF a >= 0 THEN a ELSE -a

Range(s) == {s[k] : k \in 1..Len(s)}

(***************************************************************************)
(* FacesCoincideGeometrically (ddoper.hpp:30-66)                           *)
(***************************************************************************)
\* mutant: the tolerance test of one coordinate is dropped (k < 2)
VerticesEqualMut(vi, vj) ==
    \A k \in 1..(SpaceDim3 - 1) : ~(Abs(vi[k] - vj[k]) > VertexTol)

\* lines 50-55: verticesEqual stays true iff no coordinate differs by more
\* than the tolerance
VerticesEqual(vi, vj) ==
    \A k \in 1..SpaceDim3 : ~(Abs(vi[k] - vj[k]) > VertexTol)

\* mutant: a vertex is searched only at its own position of the other list
FacesCoincideOrdered(faceV, elemV) ==
    IF Len(faceV) # Len(elemV) THEN FALSE
    ELSE \A i \in 1..Len(faceV) : VerticesEqual(faceV[i], elemV[i])

\* mutant: the size test of line 38 is missing and the inner loop runs over
\* the element's own vertices
FacesCoincideNoSizeTest(faceV, elemV) ==
    \A i \in 1..Len(faceV) : \E j \in 1..Len(elemV) : VerticesEqual(faceV[i], elemV[j])

\* faceV[i] = volumeMesh->GetVertex(faceVert[i]), elemV[j] =
\* surfaceMesh->GetVertex(elemVert[j]).  Returns false on different sizes;
\* otherwise true iff every vertex of the volume face finds an equal vertex
\* among the first faceVert.Size() vertices of the surface element.
FacesCoincideGeometrically(faceV, elemV) ==
    IF Len(faceV) # Len(elemV) THEN FALSE
    ELSE \A i \in 1..Len(faceV) : \E j \in 1..Len(faceV) : VerticesEqual(faceV[i], elemV[j])

(***************************************************************************)
(* Inputs of the face matcher                                              *)
(***************************************************************************)
CoordVals == {0, VertexTol, VertexTol + 1}

\* points with at most one nonzero coordinate
FacePoints ==
    {p \in CoordVals \X CoordVals \X CoordVals :
        Cardinality({k \in 1..3 : p[k] # 0}) <= 1}

FaceSet == UNION {[1..n -> FacePoints] : n \in 1..MaxFaceVerts}

\* perturbations of one coordinate by more than the tolerance
PerturbDeltas == {VertexTol + 1, -(VertexTol + 1)}

Perturbed(f, v, c, d) == [f EXCEPT ![v] = [@ EXCEPT ![c] = @ + d]]

\* number of positions of s holding x
Count(s, x) == Cardinality({k \in 1..Len(s) : s[k] = x})

\* the two lists hold the same vertices, in any order
SameVertices(f, e) ==
    /\ Len(f) = Len(e)
    /\ \A x \in Range(f) \cup Range(e) : Count(f, x) = Count(e, x)

\* no two vertices of the list are equal within the tolerance
WellSeparated(f) ==
    \A a, b \in 1..Len(f) : a # b => ~VerticesEqual(f[a], f[b])

(***************************************************************************)
(* Face search of SetInterfaceToSurfaceDOFMap (ddoper.hpp:177-188)         *)
(***************************************************************************)
MaxOf(S) == CHOOSE x \in S : \A y \in S : y <= x

\* mutant: the search stops at the first coinciding face
SdMeshFaceFirst(faceCoords, elFaces, elemV) ==
    LET M == {j \in 1..Len(elFaces) :
                 FacesCoincideGeometrically(faceCoords[elFaces[j]], elemV)}
    IN  IF M = {} THEN -1 ELSE elFaces[CHOOSE x \in M : \A y \in M : x <= y]

\* lines 181-186: sdMeshFace starts at -1 and is overwritten by every face
\* elFaces[j] of the element that coincides with interface element i, so
\* the last coinciding face wins.  faceCoords[f] lists the coordinates of
\* sdMesh->GetFaceVertices(f).
SdMeshFaceSearch(faceCoords, elFaces, elemV) ==
    LET M == {j \in 1..Len(elFaces) :
                 FacesCoincideGeometrically(faceCoords[elFaces[j]], elemV)}
    IN  IF M = {} THEN -1 ELSE elFaces[MaxOf(M)]

\* number of faces of the element that coincide with the interface element
NumCoinciding(faceCoords, elFaces, elemV) ==
    Cardinality({j \in 1..Len(elFaces) :
                    FacesCoincideGeometrically(faceCoords[elFaces[j]], elemV)})

(***************************************************************************)
(* Scenario: one hexahedral subdomain element whose bottom face lies on    *)
(* the interface; one coordinate of one of the four subdomain-side         *)
(* vertices of that face is perturbed.                                     *)
(***************************************************************************)
Pert1e13 == VertexTol \div 10
Pert1e12 == VertexTol
Pert1e10 == 100 * VertexTol
Pert1e6  == 1000000 * VertexTol
HexSide  == 10 * Pert1e6

HexPerturbations == {0, Pert1e13, Pert1e12, Pert1e10, Pert1e6}

\* the unit cube scaled by HexSide, vertices numbered 0..7
HexVertices ==
    [v \in 0..7 |->
        <<(IF v \in {1, 2, 5, 6} THEN HexSide ELSE 0),
          (IF v \in {2, 3, 6, 7} THEN HexSide ELSE 0),
          (IF v \in {4, 5, 6, 7} THEN HexSide ELSE 0)>>]

\* vertices of the six faces of the hexahedron, face 0 is the bottom face
HexFaceVert ==
    [f \in 0..5 |->
        CASE f = 0 -> <<3, 2, 1, 0>>
          [] f = 1 -> <<0, 1, 5, 4>>
          [] f = 2 -> <<1, 2, 6, 5>>
          [] f = 3 -> <<2, 3, 7, 6>>
          [] f = 4 -> <<3, 0, 4, 7>>
          [] f = 5 -> <<4, 5, 6, 7>>]

HexElFaces == <<0, 1, 2, 3, 4, 5>>

\* coordinates of the vertices of every face under the vertex table vtx
FaceCoordsOf(vtx, faceVert) ==
    [f \in DOMAIN faceVert |->
        [k \in 1..Len(faceVert[f]) |-> vtx[faceVert[f][k]]]]

\* the interface quadrilateral: the bottom face, listed from vertex r on
HexInterfaceFace(r) ==
    [k \in 1..4 |-> HexVertices[(r + k - 1) % 4]]

(***************************************************************************)
(* Vectors are functions on 0..n-1.                                        *)
(***************************************************************************)
Vals == {0, 1, 2}

\* content of a vector entry that nothing has written yet, not in Vals
Junk == 3 * Cardinality(Vals)

VecsOf(n, V) == [0..(n - 1) -> V]

JunkVec(n) == [p \in 0..(n - 1) |-> Junk]

\* entries of the ambient vectors given to MultTranspose
AmbientVals == {0, 1}

\* the ambient vectors MultTranspose is applied to: the vector y that Mult
\* has produced and the vectors over AmbientVals
AmbientInputs(h, y) == {y} \cup VecsOf(h, AmbientVals)

RECURSIVE DotTo(_, _, _)
\* a[0] * b[0] + ... + a[k] * b[k]
DotTo(a, b, k) == IF k < 0 THEN 0 ELSE a[k] * b[k] + DotTo(a, b, k - 1)

\* inner product of two vectors of length n
Dot(a, b, n) == DotTo(a, b, n - 1)

(***************************************************************************)
(* SetInjectionOperator (ddoper.hpp:352-382)                               *)
(***************************************************************************)
\* mutant: the constructors demand height > width
HeightExceeds(h, w) == h > w

\* MFEM_VERIFY(height >= width, ...) of lines 360 and 395
HeightCovers(h, w) == h >= w

\* position of e in the iteration order of the std::set (ascending)
SetRank(S, e) == Cardinality({f \in S : f < e})

\* the element the iterator points to after i increments
SetNth(S, i) == CHOOSE e \in S : SetRank(S, e) = i

\* mutant: y is not cleared before the scatter
SetInjMultNoClear(S, x, y0) ==
    [p \in DOMAIN y0 |-> IF p \in S THEN x[SetRank(S, p)] ELSE y0[p]]

\* lines 367-374: y = 0.0, then y[*it] = x[i] for the i-th element of id.
\* y0 is the content of y at the call.
SetInjMult(S, x, y0) ==
    [p \in DOMAIN y0 |-> IF p \in S THEN x[SetRank(S, p)] ELSE 0]

\* mutant: the gather reads position i instead of *it
SetInjMultTransposeByPos(S, x, y0) ==
    [i \in DOMAIN y0 |-> IF i < Cardinality(S) THEN x[i] ELSE y0[i]]

\* lines 376-381: y[i] = x[*it] for the i-th element of id; y is not cleared
SetInjMultTranspose(S, x, y0) ==
    [i \in DOMAIN y0 |-> IF i < Cardinality(S) THEN x[SetNth(S, i)] ELSE y0[i]]

(***************************************************************************)
(* InjectionOperator (ddoper.hpp:384-418)                                  *)
(***************************************************************************)
\* GetLocalTDofNumber of the interface space: the owned full DOFs are
\* numbered consecutively, the others give -1
LocalTDof(owned, i) ==
    IF owned[i] THEN Cardinality({k \in DOMAIN owned : k < i /\ owned[k]}) ELSE -1

TrueVSize(owned) == Cardinality({k \in DOMAIN owned : owned[k]})

\* gf.SetFromTrueDofs(x): an owned full DOF takes the value of its true
\* DOF, a full DOF owned by another process takes the value remote[i]
SetFromTrueDofs(owned, x, remote) ==
    [i \in DOMAIN owned |-> IF owned[i] THEN x[LocalTDof(owned, i)] ELSE remote[i]]

\* the values the DOFs owned by other processes can bring; the entry of an
\* owned DOF is not used
RemoteValues(owned) ==
    {r \in [DOMAIN owned -> Vals] : \A i \in DOMAIN owned : owned[i] => r[i] = 0}

\* gf.GetTrueDofs(y): every true DOF takes the value of its full DOF
GetTrueDofs(owned, gf) ==
    [t \in 0..(TrueVSize(owned) - 1) |->
        gf[CHOOSE i \in DOMAIN owned : LocalTDof(owned, i) = t]]

\* the full DOFs whose table entry lies outside [0, height)
OutOfRange(id, height) == {i \in DOMAIN id : id[i] < 0 \/ id[i] >= height}

\* mutant: of the full DOFs mapped to one position the first one wins
InjMultYFirst(id, gf, y0) ==
    [p \in DOMAIN y0 |->
        LET I == {i \in DOMAIN id : id[i] = p}
        IN  IF I = {} THEN 0 ELSE gf[CHOOSE i \in I : \A k \in I : i <= k]]

\* lines 406-408: y = 0.0, then y[id[i]] = gf[i] for i = 0..fullWidth-1 in
\* turn, so the last full DOF mapped to a position wins.  A write at an
\* index outside the vector does not change any entry of the vector.
InjMultY(id, gf, y0) ==
    [p \in DOMAIN y0 |->
        LET I == {i \in DOMAIN id : id[i] = p}
        IN  IF I = {} THEN 0 ELSE gf[MaxOf(I)]]

\* mutant: the gather reads position i instead of id[i]
InjGatherByPos(id, x, stray) ==
    [i \in DOMAIN id |-> IF i \in DOMAIN x THEN x[i] ELSE stray[i]]

\* lines 413-414: gf[i] = x[id[i]]; a read at an index outside the vector
\* yields whatever lies there, here stray[i]
InjGather(id, x, stray) ==
    [i \in DOMAIN id |-> IF id[i] \in DOMAIN x THEN x[id[i]] ELSE stray[i]]

\* the values reads outside the vector can yield; the entry of an index
\* within the vector is not used
StrayValues(id, h) ==
    {s \in [DOMAIN id -> Vals] :
        \A i \in DOMAIN id : id[i] \in 0..(h - 1) => s[i] = 0}

(***************************************************************************)
(* Size bookkeeping of DDMInterfaceOperator::DDMInterfaceOperator          *)
(* (ddoper.hpp:494-581)                                                    *)
(***************************************************************************)
RECURSIVE SumTo(_, _)
\* a[0] + ... + a[k]
SumTo(a, k) == IF k < 0 THEN 0 ELSE a[k] + SumTo(a, k - 1)

\* mutant: the offsets are left as block sizes
PartialSumSkipped(a) == a

\* Array<int>::PartialSum, line 580: entry k becomes a[0] + ... + a[k]
PartialSum(a) == [k \in DOMAIN a |-> SumTo(a, k)]

RECURSIVE SdInterfaceSizeNDOnly(_, _, _)
\* mutant: the H1 size of line 518 / 521 is not added
SdInterfaceSizeNDOnly(nd, h1, list) ==
    IF list = <<>> THEN 0
    ELSE nd[Head(list)] + SdInterfaceSizeNDOnly(nd, h1, Tail(list))

RECURSIVE SdInterfaceSize(_, _, _)
\* lines 513-521: what the loop over subdomainLocalInterfaces[m] adds to
\* size and to block_trueOffsets[m+1]; nd[i] and h1[i] are
\* ifespace[i]->GetTrueVSize() and iH1fespace[i]->GetTrueVSize()
SdInterfaceSize(nd, h1, list) ==
    IF list = <<>> THEN 0
    ELSE nd[Head(list)] + h1[Head(list)] + SdInterfaceSize(nd, h1, Tail(list))

\* number of positions of list holding x (the scans of lines 916-942)
Occurrences(list, x) == Cardinality({k \in 1..Len(list) : list[k] = x})

(***************************************************************************)
(* CreateCij and CreateInterfaceOperator (ddoper.hpp:789-1057).  An offset *)
(* array is a sequence: entry k of the code is element k + 1.              *)
(***************************************************************************)
RECURSIVE SeqPartialSum(_)
\* Array<int>::PartialSum
SeqPartialSum(a) ==
    IF Len(a) <= 1 THEN a
    ELSE LET p == SeqPartialSum(SubSeq(a, 1, Len(a) - 1))
         IN  Append(p, p[Len(p)] + a[Len(a)])

Last(a) == a[Len(a)]

\* size of block k of an offset array
OffsetBlock(a, k) == a[k + 2] - a[k + 1]

RECURSIVE OsScan(_, _, _, _, _)
\* the loops of lines 916-942 from position k on: found is sdNif # -1,
\* acc = <<sdNos, sdNosComp>>
OsScan(list, interfaceIndex, sizes, k, st) ==
    IF k > Len(list) THEN st
    ELSE LET found == st.found \/ list[k] = interfaceIndex
             add   == sizes[list[k]]
         IN  OsScan(list, interfaceIndex, sizes, k + 1,
                    IF ~found
                    THEN [found |-> FALSE, os |-> st.os + add, comp |-> st.comp]
                    ELSE [found |-> TRUE, os |-> st.os, comp |-> st.comp + add])

OsOf(list, interfaceIndex, sizes) ==
    OsScan(list, interfaceIndex, sizes, 1, [found |-> FALSE, os |-> 0, comp |-> 0])

\* mutant: line 947 takes off both sizes, as line 948 does
Sd0osCompBoth(comp, nd, h1) == comp - (nd + h1)

\* line 947: sd0osComp -= ifespace[interfaceIndex]->GetTrueVSize()
Sd0osComp(comp, nd, h1) == comp - nd

\* line 948
Sd1osComp(comp, nd, h1) == comp - (nd + h1)

\* mutant: the identity on f is set one row block further down
BlockInjectionLeftBlocksShifted == {<<0, 0>>, <<3, 1>>}

\* lines 1028-1029: the blocks set in blockInjectionLeft
BlockInjectionLeftBlocks == {<<0, 0>>, <<2, 1>>}

\* lines 1053-1054: the blocks set in blockInjectionRight
BlockInjectionRightBlocks == {<<0, 0>>, <<1, 2>>}

\* the offset arrays CreateCij and CreateInterfaceOperator store at the
\* local interface index; nd, h1 are the true sizes of the interface's two
\* spaces, bdry0, bdry1 are tdofsBdry[sd0].size(), tdofsBdry[sd1].size()
InterfaceOffsets(nd, h1, bdry0, bdry1, os0, comp0, os1, comp1) ==
    [rowIF   |-> SeqPartialSum(<<0, nd, nd>>),
     colIF   |-> SeqPartialSum(<<0, nd, nd, h1>>),
     rowIFR  |-> SeqPartialSum(<<0, nd, nd + h1>>),
     colIFR  |-> SeqPartialSum(<<0, bdry1, nd + h1>>),
     rowIFL  |-> SeqPartialSum(<<0, bdry0, nd>>),
     colIFL  |-> SeqPartialSum(<<0, nd, nd>>),
     rowIFBL |-> SeqPartialSum(<<0, bdry0, os0, nd, comp0>>),
     colIFBL |-> SeqPartialSum(<<0, bdry0, nd>>),
     rowIFBR |-> SeqPartialSum(<<0, bdry1, nd + h1>>),
     colIFBR |-> SeqPartialSum(<<0, bdry1, os1, nd + h1, comp1>>)]

\* the half-open range of block k of an offset array
BlockRange(a, k) == {j \in 0..(Last(a) - 1) : a[k + 1] <= j /\ j < a[k + 2]}

\* the operator of line 1056 and the operators it is composed of: heights,
\* widths, whether the blocks set fit their places, and the rows written
\* and columns read by the outer block injections
InterfaceOperator(o, nd, h1, bdry0, bdry1, true0, true1) ==
    [offs   |-> o,
     height |-> Last(o.rowIFBL),
     width  |-> Last(o.colIFBR),
     inner  |-> /\ Last(o.colIFBL) = Last(o.rowIFL)
                /\ Last(o.colIFL) = Last(o.rowIF)
                /\ Last(o.colIF) = Last(o.rowIFR)
                /\ Last(o.colIFR) = Last(o.rowIFBR),
     fits   |-> /\ OffsetBlock(o.rowIF, 0) = nd /\ OffsetBlock(o.rowIF, 1) = nd
                /\ OffsetBlock(o.colIF, 0) = nd /\ OffsetBlock(o.colIF, 1) = nd
                /\ OffsetBlock(o.colIF, 2) = h1
                /\ OffsetBlock(o.rowIFR, 0) = nd /\ OffsetBlock(o.colIFR, 0) = bdry1
                /\ OffsetBlock(o.rowIFR, 1) = nd + h1
                /\ OffsetBlock(o.colIFR, 1) = nd + h1
                /\ OffsetBlock(o.rowIFL, 0) = bdry0 /\ OffsetBlock(o.colIFL, 0) = nd
                /\ OffsetBlock(o.rowIFL, 1) = nd /\ OffsetBlock(o.colIFL, 1) = nd
                /\ \A b \in BlockInjectionLeftBlocks :
                      OffsetBlock(o.rowIFBL, b[1]) = OffsetBlock(o.colIFBL, b[2])
                /\ \A b \in BlockInjectionRightBlocks :
                      OffsetBlock(o.rowIFBR, b[1]) = OffsetBlock(o.colIFBR, b[2]),
     rows   |-> UNION {BlockRange(o.rowIFBL, b[1]) : b \in BlockInjectionLeftBlocks},
     cols   |-> UNION {BlockRange(o.colIFBR, b[2]) : b \in BlockInjectionRightBlocks}]

(***************************************************************************)
(* State                                                                   *)
(***************************************************************************)
VARIABLES
    fcVol,      \* coordinates of the volume-mesh face's vertices
    fcSurf,     \* coordinates of the surface-mesh element's vertices
    fcRet,      \* value returned by FacesCoincideGeometrically
    fcPc,       \* "ready" | "returned"
    fcPert      \* "none" | "same" | "separated": the pair is a perturbation
                \* of a pair holding the same vertices ("separated": no two
                \* of them equal within the tolerance)

VARIABLES
    hxSdVtx,    \* vertex coordinates of the subdomain mesh (8 vertices)
    hxIf,       \* vertex coordinates of the interface element
    hxDelta,    \* size of the perturbation
    hxFace,     \* sdMeshFace
    hxPc        \* "search" | "matched" | "abort"

VARIABLES
    opKind,     \* "set": SetInjectionOperator, "full": InjectionOperator
    opHeight,   \* Operator::height
    opWidth,    \* Operator::width
    opSet,      \* SetInjectionOperator::id, the std::set of ambient indices
    opId,       \* InjectionOperator::id, the DOF correspondence table
    opOwned,    \* which full DOFs of the interface space are true DOFs
    opGf,       \* InjectionOperator::gf (mutable)
    opX,        \* the compact vector given to Mult
    opY,        \* the ambient vector written by Mult
    opW,        \* the ambient vector given to MultTranspose
    opZ,        \* the compact vector written by MultTranspose
    opOob,      \* an index outside [0, height) was used on an ambient vector
    opPc        \* "new" | "built" | "mult" | "done" | "abort"

VARIABLES
    numSubdomains,              \* constructor arguments
    numInterfaces,
    pmeshSD,                    \* pmeshSD[m] != NULL
    pmeshIF,                    \* pmeshIF[i] != NULL
    interfaceLocalIndex,
    localInterfaces,            \* [first, second] per local interface
    ifTrueND,                   \* ifespace[i]->GetTrueVSize()
    ifTrueH1,                   \* iH1fespace[i]->GetTrueVSize()
    sdTrueSize,                 \* fespace[m]->GetTrueVSize()
    bdrySize,                   \* size of tdofsBdry[m] after FindBoundaryTrueDOFs
    fespace,                    \* fespace[m] != NULL
    ifespace,                   \* ifespace[i] != NULL (and iH1fespace[i])
    globalInterfaceIndex,
    subdomainLocalInterfaces,
    block_trueOffsets,
    size,
    height,
    width,
    Asd,                        \* Asd[m] != NULL (and invAsd[m], tdofsBdryInjection[m])
    ifBlocks,                   \* blocks set in globalInterfaceOp
    sdBlocks,                   \* blocks set in globalSubdomainOp
    ctI,                        \* index of the running loop
    ctPc,                       \* position in the constructor
    ctFail,                     \* the MFEM_VERIFY that failed
    ctNullDeref                 \* a null per-subdomain object was dereferenced

ctIn == <<numSubdomains, numInterfaces, pmeshSD, pmeshIF, interfaceLocalIndex,
          localInterfaces, ifTrueND, ifTrueH1, sdTrueSize, bdrySize>>

ctState == <<fespace, ifespace, globalInterfaceIndex, subdomainLocalInterfaces,
             block_trueOffsets, size, height, width, Asd, ifBlocks, sdBlocks,
             ctI, ctPc, ctFail, ctNullDeref>>

ctVars == <<ctIn, ctState>>

VARIABLES
    injGf,              \* gf of InterfaceToSurfaceInjection[m][i], per <<m, i>>
    multX,              \* argument of the latest DDMInterfaceOperator::Mult
    multY,              \* its result
    prevX,              \* argument and result of the call before it
    prevY,
    multLimit,          \* a solve of the latest Mult stopped at its iteration limit
    multFailed          \* the latest Mult has reported a failure to its caller

glVars == <<injGf, multX, multY, prevX, prevY, multLimit, multFailed>>

VARIABLES
    bdDofs,             \* GetBdrElementDofs(be) of every boundary element
    bdOwned,            \* per full DOF of the space: owned by this process
    tdofsBdry,          \* the output set
    bdBe,               \* be of the loop of line 14
    bdPc                \* position in FindBoundaryTrueDOFs

bdVars == <<bdDofs, bdOwned, tdofsBdry, bdBe, bdPc>>

VARIABLES
    soTrue,             \* fespace[subdomain]->GetTrueVSize()
    soND,               \* ifespace[..]->GetTrueVSize() per incident interface
    soH1,               \* iH1fespace[..]->GetTrueVSize() per incident interface
    trueOffsetsSD,
    soBlocks,           \* the blocks set in op
    soI,                \* i of the loop of line 1202
    soPc                \* position in CreateSubdomainOperator

soVars == <<soTrue, soND, soH1, trueOffsetsSD, soBlocks, soI, soPc>>

VARIABLES
    ifOffsets,          \* row/colTrueOffsetsIF.. at each local interface index
    ifOps               \* per <<ili, orientation>> the operator
                        \* CreateInterfaceOperator has returned

ioVars == <<ifOffsets, ifOps>>

VARIABLES
    mpNIf,              \* number of faces in pmeshFacesInInterface
    mpRenum,            \* sdMesh vertex number of the k-th interface vertex
    mpSdVtx,            \* sdMesh vertex coordinates
    mpApexLocal,        \* local number of the off-interface vertex in an element
    mpNbrs,             \* per interface face, how many neighbouring pmesh
                        \* elements carry sdAttribute
    mpUnowned,          \* sdMesh vertex whose DOFs are not true DOFs, or -1
    mpFec,              \* fec->DofForGeometry of POINT, SEGMENT and the face
    pmeshFaceToElem,    \* per interface face the pmesh element found, or -1
    dofmap,
    mpI,                \* i of the loop over the interface faces
    sdMeshFace,
    mpPc,               \* position in SetInterfaceToSurfaceDOFMap
    mpFail              \* the MFEM_VERIFY that failed

mpIn == <<mpNIf, mpRenum, mpSdVtx, mpApexLocal, mpNbrs, mpUnowned, mpFec>>

mpState == <<pmeshFaceToElem, dofmap, mpI, sdMeshFace, mpPc, mpFail>>

mpVars == <<mpIn, mpState>>

fcVars == <<fcVol, fcSurf, fcRet, fcPc, fcPert>>

hxVars == <<hxSdVtx, hxIf, hxDelta, hxFace, hxPc>>

opVars == <<opKind, opHeight, opWidth, opSet, opId, opOwned, opGf, opX, opY,
            opW, opZ, opOob, opPc>>

vars == <<fcVars, hxVars, opVars, ctVars, mpVars, glVars, bdVars, soVars, ioVars>>

(***************************************************************************)
(* Values of the variables a specification does not use                    *)
(***************************************************************************)
FcIdle ==
    /\ fcVol = <<>>
    /\ fcSurf = <<>>
    /\ fcRet = FALSE
    /\ fcPc = "idle"
    /\ fcPert = "none"

HxIdle ==
    /\ hxSdVtx = <<>>
    /\ hxIf = <<>>
    /\ hxDelta = 0
    /\ hxFace = -1
    /\ hxPc = "idle"

OpIdle ==
    /\ opKind = "none"
    /\ opHeight = 0
    /\ opWidth = 0
    /\ opSet = {}
    /\ opId = <<>>
    /\ opOwned = <<>>
    /\ opGf = <<>>
    /\ opX = <<>>
    /\ opY = <<>>
    /\ opW = <<>>
    /\ opZ = <<>>
    /\ opOob = FALSE
    /\ opPc = "idle"

MpIdle ==
    /\ mpNIf = 0
    /\ mpRenum = <<>>
    /\ mpSdVtx = <<>>
    /\ mpApexLocal = 0
    /\ mpNbrs = <<>>
    /\ mpUnowned = -1
    /\ mpFec = <<>>
    /\ pmeshFaceToElem = <<>>
    /\ dofmap = <<>>
    /\ mpI = 0
    /\ sdMeshFace = -1
    /\ mpPc = "idle"
    /\ mpFail = "none"

IoIdle ==
    /\ ifOffsets = <<>>
    /\ ifOps = <<>>

SoIdle ==
    /\ soTrue = 0
    /\ soND = <<>>
    /\ soH1 = <<>>
    /\ trueOffsetsSD = <<>>
    /\ soBlocks = {}
    /\ soI = 0
    /\ soPc = "idle"

BdIdle ==
    /\ bdDofs = <<>>
    /\ bdOwned = <<>>
    /\ tdofsBdry = {}
    /\ bdBe = 0
    /\ bdPc = "idle"

GlIdle ==
    /\ injGf = <<>>
    /\ multX = <<>>
    /\ multY = <<>>
    /\ prevX = <<>>
    /\ prevY = <<>>
    /\ multLimit = FALSE
    /\ multFailed = FALSE

CtIdle ==
    /\ numSubdomains = 0
    /\ numInterfaces = 0
    /\ pmeshSD = <<>>
    /\ pmeshIF = <<>>
    /\ interfaceLocalIndex = <<>>
    /\ localInterfaces = <<>>
    /\ ifTrueND = <<>>
    /\ ifTrueH1 = <<>>
    /\ sdTrueSize = <<>>
    /\ bdrySize = <<>>
    /\ fespace = <<>>
    /\ ifespace = <<>>
    /\ globalInterfaceIndex = <<>>
    /\ subdomainLocalInterfaces = <<>>
    /\ block_trueOffsets = <<>>
    /\ size = 0
    /\ height = 0
    /\ width = 0
    /\ Asd = <<>>
    /\ ifBlocks = {}
    /\ sdBlocks = {}
    /\ ctI = 0
    /\ ctPc = "idle"
    /\ ctFail = "none"
    /\ ctNullDeref = FALSE

(***************************************************************************)
(* Specification of the face matcher                                       *)
(***************************************************************************)

FcInit ==
    /\ fcVol \in FaceSet
    /\ fcSurf \in FaceSet
    /\ fcRet = FALSE
    /\ fcPc = "ready"
    /\ fcPert = "none"
    /\ HxIdle
    /\ OpIdle
    /\ CtIdle
    /\ MpIdle
    /\ GlIdle
    /\ BdIdle
    /\ SoIdle
    /\ IoIdle

FcCall ==
    /\ fcPc = "ready"
    /\ fcRet' = FacesCoincideGeometrically(fcVol, fcSurf)
    /\ fcPc' = "returned"
    /\ UNCHANGED <<fcVol, fcSurf, fcPert>>
    /\ UNCHANGED <<hxVars, opVars, ctVars, mpVars, glVars, bdVars, soVars, ioVars>>

\* the caller moves one coordinate of one vertex of the volume face
FcPerturbVol ==
    /\ fcPc = "returned"
    /\ fcPert = "none"
    /\ SameVertices(fcVol, fcSurf)
    /\ \E v \in 1..Len(fcVol), c \in 1..3, d \in PerturbDeltas :
          fcVol' = Perturbed(fcVol, v, c, d)
    /\ fcPert' = IF WellSeparated(fcVol) THEN "separated" ELSE "same"
    /\ fcPc' = "ready"
    /\ UNCHANGED <<fcSurf, fcRet>>
    /\ UNCHANGED <<hxVars, opVars, ctVars, mpVars, glVars, bdVars, soVars, ioVars>>

\* the caller moves one coordinate of one vertex of the surface element
FcPerturbSurf ==
    /\ fcPc = "returned"
    /\ fcPert = "none"
    /\ SameVertices(fcVol, fcSurf)
    /\ \E v \in 1..Len(fcSurf), c \in 1..3, d \in PerturbDeltas :
          fcSurf' = Perturbed(fcSurf, v, c, d)
    /\ fcPert' = IF WellSeparated(fcSurf) THEN "separated" ELSE "same"
    /\ fcPc' = "ready"
    /\ UNCHANGED <<fcVol, fcRet>>
    /\ UNCHANGED <<hxVars, opVars, ctVars, mpVars, glVars, bdVars, soVars, ioVars>>

FcNext == FcCall \/ FcPerturbVol \/ FcPerturbSurf

SpecFace == FcInit /\ [][FcNext]_vars

(***************************************************************************)
(* Specification of the perturbed-hexahedron scenario                      *)
(***************************************************************************)
HxInit ==
    /\ hxDelta \in HexPerturbations
    /\ \E v \in 0..3, c \in 1..3, sgn \in {1, -1} :
          hxSdVtx = [HexVertices EXCEPT ![v] = [@ EXCEPT ![c] = @ + sgn * hxDelta]]
    /\ \E r \in 0..3 : hxIf = HexInterfaceFace(r)
    /\ hxFace = -1
    /\ hxPc = "search"
    /\ FcIdle
    /\ OpIdle
    /\ CtIdle
    /\ MpIdle
    /\ GlIdle
    /\ BdIdle
    /\ SoIdle
    /\ IoIdle

\* lines 180-188: the face search and MFEM_VERIFY(sdMeshFace >= 0, "")
HxFaceSearch ==
    /\ hxPc = "search"
    /\ hxFace' = SdMeshFaceSearch(FaceCoordsOf(hxSdVtx, HexFaceVert), HexElFaces, hxIf)
    /\ hxPc' = IF hxFace' >= 0 THEN "matched" ELSE "abort"
    /\ UNCHANGED <<hxSdVtx, hxIf, hxDelta>>
    /\ UNCHANGED <<fcVars, opVars, ctVars, mpVars, glVars, bdVars, soVars, ioVars>>

HxNext == HxFaceSearch

SpecHex == HxInit /\ [][HxNext]_vars

(***************************************************************************)
(* Specification of the two injection operators                            *)
(***************************************************************************)
\* SetInjectionOperator is built at line 556 over tdofsBdry[m], a set of
\* local true DOF numbers of fespace[m], with height GetTrueVSize()
OpInitSet ==
    /\ opKind = "set"
    /\ opHeight \in 0..MaxHeight
    /\ opSet \in SUBSET (0..(opHeight - 1))
    /\ opWidth = 0
    /\ opId = <<>>
    /\ opOwned = <<>>
    /\ opGf = <<>>
    /\ opX \in VecsOf(Cardinality(opSet), Vals)
    /\ opY = JunkVec(opHeight)
    /\ opW = JunkVec(opHeight)
    /\ opZ = JunkVec(Cardinality(opSet))
    /\ opOob = FALSE
    /\ opPc = "new"

\* InjectionOperator is built at line 529 over the table written by
\* SetInterfaceToSurfaceDOFMap: one entry per full DOF of the interface
\* space, each -1 or a local true DOF number of fespace[m]
OpInitFull ==
    /\ opKind = "full"
    /\ opHeight \in 0..MaxHeight
    /\ \E F \in 1..MaxFull :
          /\ opOwned \in [0..(F - 1) -> BOOLEAN]
          /\ opId \in [0..(F - 1) -> {-1} \cup 0..(opHeight - 1)]
          /\ opGf = JunkVec(F)
    /\ opSet = {}
    /\ opWidth = 0
    /\ opX \in VecsOf(TrueVSize(opOwned), Vals)
    /\ opY = JunkVec(opHeight)
    /\ opW = JunkVec(opHeight)
    /\ opZ = JunkVec(TrueVSize(opOwned))
    /\ opOob = FALSE
    /\ opPc = "new"

OpInit ==
    /\ OpInitSet \/ OpInitFull
    /\ FcIdle
    /\ HxIdle
    /\ CtIdle
    /\ MpIdle
    /\ GlIdle
    /\ BdIdle
    /\ SoIdle
    /\ IoIdle

\* lines 358-361
SetInjectionOperatorNew ==
    /\ opPc = "new"
    /\ opKind = "set"
    /\ opWidth' = Cardinality(opSet)
    /\ opPc' = IF HeightCovers(opHeight, opWidth') THEN "built" ELSE "abort"
    /\ UNCHANGED <<opKind, opHeight, opSet, opId, opOwned, opGf, opX, opY, opW, opZ,
                   opOob>>
    /\ UNCHANGED <<fcVars, hxVars, ctVars, mpVars, glVars, bdVars, soVars, ioVars>>

\* lines 367-374
SetInjectionOperatorMult ==
    /\ opPc = "built"
    /\ opKind = "set"
    /\ opY' = SetInjMult(opSet, opX, opY)
    /\ opPc' = "mult"
    /\ UNCHANGED <<opKind, opHeight, opWidth, opSet, opId, opOwned, opGf, opX, opW, opZ,
                   opOob>>
    /\ UNCHANGED <<fcVars, hxVars, ctVars, mpVars, glVars, bdVars, soVars, ioVars>>

\* lines 376-381, applied to the vector Mult has produced or to another
\* ambient vector
SetInjectionOperatorMultTranspose ==
    /\ opPc = "mult"
    /\ opKind = "set"
    /\ \E w \in AmbientInputs(opHeight, opY) :
          /\ opW' = w
          /\ opZ' = SetInjMultTranspose(opSet, w, opZ)
    /\ opPc' = "done"
    /\ UNCHANGED <<opKind, opHeight, opWidth, opSet, opId, opOwned, opGf, opX, opY, opOob>>
    /\ UNCHANGED <<fcVars, hxVars, ctVars, mpVars, glVars, bdVars, soVars, ioVars>>

\* lines 392-396
InjectionOperatorNew ==
    /\ opPc = "new"
    /\ opKind = "full"
    /\ opWidth' = TrueVSize(opOwned)
    /\ opPc' = IF HeightCovers(opHeight, opWidth') THEN "built" ELSE "abort"
    /\ UNCHANGED <<opKind, opHeight, opSet, opId, opOwned, opGf, opX, opY, opW, opZ,
                   opOob>>
    /\ UNCHANGED <<fcVars, hxVars, ctVars, mpVars, glVars, bdVars, soVars, ioVars>>

\* lines 402-409.  y[id[i]] with id[i] outside [0, height) is an access
\* outside the vector: the run either goes on, no entry of y being changed
\* by that write, or is stopped by the access.
InjectionOperatorMult ==
    /\ opPc = "built"
    /\ opKind = "full"
    /\ \E remote \in RemoteValues(opOwned) :
          opGf' = SetFromTrueDofs(opOwned, opX, remote)
    /\ opY' = InjMultY(opId, opGf', opY)
    /\ opOob' = (OutOfRange(opId, opHeight) # {})
    /\ \/ opPc' = "mult"
       \/ opOob' /\ opPc' = "crash"
    /\ UNCHANGED <<opKind, opHeight, opWidth, opSet, opId, opOwned, opX, opW, opZ>>
    /\ UNCHANGED <<fcVars, hxVars, ctVars, mpVars, glVars, bdVars, soVars, ioVars>>

\* lines 411-417, applied to the vector Mult has produced or to another
\* ambient vector.  x[id[i]] with
\* id[i] outside [0, height) reads outside the vector.
InjectionOperatorMultTranspose ==
    /\ opPc = "mult"
    /\ opKind = "full"
    /\ \E w \in AmbientInputs(opHeight, opY), stray \in StrayValues(opId, opHeight) :
          /\ opW' = w
          /\ opGf' = InjGather(opId, w, stray)
    /\ opZ' = GetTrueDofs(opOwned, opGf')
    /\ opOob' = (opOob \/ OutOfRange(opId, opHeight) # {})
    /\ \/ opPc' = "done"
       \/ opOob' /\ opPc' = "crash"
    /\ UNCHANGED <<opKind, opHeight, opWidth, opSet, opId, opOwned, opX, opY>>
    /\ UNCHANGED <<fcVars, hxVars, ctVars, mpVars, glVars, bdVars, soVars, ioVars>>

OpNext ==
    \/ SetInjectionOperatorNew
    \/ SetInjectionOperatorMult
    \/ SetInjectionOperatorMultTranspose
    \/ InjectionOperatorNew
    \/ InjectionOperatorMult
    \/ InjectionOperatorMultTranspose

SpecInj == OpInit /\ [][OpNext]_vars

(***************************************************************************)
(* Specification of the constructors of the two injection operators under  *)
(* arbitrary arguments: the index set of SetInjectionOperator need not lie *)
(* within [0, height).                                                     *)
(***************************************************************************)
NewInitSet ==
    /\ opKind = "set"
    /\ opHeight \in 0..MaxHeight
    /\ opSet \in SUBSET (0..MaxHeight)
    /\ opWidth = 0
    /\ opId = <<>>
    /\ opOwned = <<>>
    /\ opGf = <<>>
    /\ opX \in VecsOf(Cardinality(opSet), AmbientVals)
    /\ opY = JunkVec(opHeight)
    /\ opW = JunkVec(opHeight)
    /\ opZ = JunkVec(Cardinality(opSet))
    /\ opOob = FALSE
    /\ opPc = "new"

NewInit ==
    /\ NewInitSet \/ OpInitFull
    /\ FcIdle
    /\ HxIdle
    /\ CtIdle
    /\ MpIdle
    /\ GlIdle
    /\ BdIdle
    /\ SoIdle
    /\ IoIdle

NewNext ==
    \/ SetInjectionOperatorNew
    \/ InjectionOperatorNew

SpecNew == NewInit /\ [][NewNext]_vars

(***************************************************************************)
(* FindBoundaryTrueDOFs (ddoper.hpp:10-27)                                 *)
(***************************************************************************)
\* DOFs of one boundary element
BdrElemDofs == 2

\* a DOF d as GetBdrElementDofs reports it: d, or -1 - d with the sign
SignEncodings(n) == {d : d \in 0..(n - 1)} \cup {-1 - d : d \in 0..(n - 1)}

\* mutant: a negative index is only negated
DecodeDofNegated(d) == IF d >= 0 THEN d ELSE 0 - d

\* line 21: dofs[i] >= 0 ? dofs[i] : -1 - dofs[i]
DecodeDof(d) == IF d >= 0 THEN d ELSE -1 - d

\* lines 19-25 for the DOFs of one boundary element
RECURSIVE InsertBdrDofs(_, _, _, _)
InsertBdrDofs(dofs, owned, i, set) ==
    IF i > Len(dofs) THEN set
    ELSE LET dof_i == DecodeDof(dofs[i])
             ldof  == IF dof_i \in DOMAIN owned THEN LocalTDof(owned, dof_i) ELSE -1
         IN  InsertBdrDofs(dofs, owned, i + 1,
                           IF ldof >= 0 THEN set \cup {ldof} ELSE set)

\* the set handed over is the empty one of line 534
BdInit ==
    /\ \E n \in 1..MaxBdrFull :
          /\ bdOwned \in [0..(n - 1) -> BOOLEAN]
          /\ bdDofs \in UNION {[1..k -> [1..BdrElemDofs -> SignEncodings(n)]] :
                                 k \in 0..MaxBdrElems}
    /\ tdofsBdry = {}
    /\ bdBe = 0
    /\ bdPc = "loop"
    /\ FcIdle
    /\ HxIdle
    /\ OpIdle
    /\ CtIdle
    /\ MpIdle
    /\ GlIdle
    /\ SoIdle
    /\ IoIdle

\* lines 14-26, iteration be = bdBe
FindBoundaryElement ==
    /\ bdPc = "loop"
    /\ bdBe < Len(bdDofs)
    /\ tdofsBdry' = InsertBdrDofs(bdDofs[bdBe + 1], bdOwned, 1, tdofsBdry)
    /\ bdBe' = bdBe + 1
    /\ UNCHANGED <<bdDofs, bdOwned, bdPc>>
    /\ UNCHANGED <<fcVars, hxVars, opVars, ctVars, mpVars, glVars, soVars, ioVars>>

\* line 14 with be == GetNBE(): the function returns
FindBoundaryReturn ==
    /\ bdPc = "loop"
    /\ bdBe = Len(bdDofs)
    /\ bdPc' = "returned"
    /\ UNCHANGED <<bdDofs, bdOwned, tdofsBdry, bdBe>>
    /\ UNCHANGED <<fcVars, hxVars, opVars, ctVars, mpVars, glVars, soVars, ioVars>>

BdNext ==
    \/ FindBoundaryElement
    \/ FindBoundaryReturn

SpecBdry == BdInit /\ [][BdNext]_vars

(***************************************************************************)
(* CreateSubdomainOperator (ddoper.hpp:1176-1261)                          *)
(***************************************************************************)
SoTrueSizes == {2, 3}
SoNDSizes == {1, 2}
SoH1Sizes == {1, 3}

\* height and width of an operator
Dims(h, w) == [h |-> h, w |-> w]

\* ProductOperator(A, B): height of A, width of B; the inner dimensions
\* have to agree
ProductDims(a, b) == [h |-> a.h, w |-> b.w, inner |-> (a.w = b.h)]

TransposeDims(a) == [h |-> a.w, w |-> a.h]

\* InterfaceToSurfaceInjection[subdomain][i], lines 528-529
InjectionDims(i) == Dims(soTrue, soND[i + 1])

\* ifNDmass and ifNDcurlcurl, lines 745-757
NDMassDims(i) == Dims(soND[i + 1], soND[i + 1])

\* ifH1mass, lines 765-771
H1MassDims(i) == Dims(soH1[i + 1], soH1[i + 1])

\* ifNDH1grad, lines 774-781: trial space H1, test space Nedelec
NDH1GradDims(i) == Dims(soND[i + 1], soH1[i + 1])

\* op->SetBlock(row, col, operator)
SdBlock(row, col, what, d) == [row |-> row, col |-> col, what |-> what, dims |-> d]

\* mutant: the column of the line commented out at 1210
SFColumn(i) == (2 * i) + 1

\* column of the block of line 1218
SRhoColumn(i) == (2 * i) + 2

\* lines 1186-1195, before PartialSum
RECURSIVE SdOffsetsRaw(_, _, _)
SdOffsetsRaw(true, nd, h1) ==
    IF nd = <<>> THEN <<0, true>>
    ELSE LET n == Len(nd)
         IN  SdOffsetsRaw(true, SubSeq(nd, 1, n - 1), SubSeq(h1, 1, n - 1))
                 \o <<nd[n], h1[n]>>

SoInit ==
    /\ soTrue \in SoTrueSizes
    /\ \E n \in 0..MaxSdInterfaces :
          /\ soND \in [1..n -> SoNDSizes]
          /\ soH1 \in [1..n -> SoH1Sizes]
    /\ trueOffsetsSD = <<>>
    /\ soBlocks = {}
    /\ soI = 0
    /\ soPc = "offsets"
    /\ FcIdle
    /\ HxIdle
    /\ OpIdle
    /\ CtIdle
    /\ MpIdle
    /\ GlIdle
    /\ BdIdle
    /\ IoIdle

\* lines 1178-1200; trueOffsetsSD[k] of the code is element k + 1 here
SdOperatorOffsets ==
    /\ soPc = "offsets"
    /\ trueOffsetsSD' = SeqPartialSum(SdOffsetsRaw(soTrue, soND, soH1))
    /\ soBlocks' = {SdBlock(0, 0, "sdND", Dims(soTrue, soTrue))}
    /\ soPc' = IF Len(soND) > 0 THEN "blocks" ELSE "returned"
    /\ UNCHANGED <<soTrue, soND, soH1, soI>>
    /\ UNCHANGED <<fcVars, hxVars, opVars, ctVars, mpVars, glVars, bdVars, ioVars>>

\* lines 1202-1258, iteration i = soI
SdOperatorBlocks ==
    /\ soPc = "blocks"
    /\ LET i == soI
       IN  soBlocks' = soBlocks \cup
             {SdBlock(0, SRhoColumn(i), "InjGrad",
                      ProductDims(InjectionDims(i), NDH1GradDims(i))),
              SdBlock((2 * i) + 1, (2 * i) + 2, "Grad", NDH1GradDims(i)),
              SdBlock((2 * i) + 1, 0, "MassCurlInjT",
                      ProductDims(NDMassDims(i), TransposeDims(InjectionDims(i)))),
              SdBlock((2 * i) + 2, (2 * i) + 1, "GradT", TransposeDims(NDH1GradDims(i))),
              SdBlock((2 * i) + 1, (2 * i) + 1, "NDmass", NDMassDims(i)),
              SdBlock((2 * i) + 2, (2 * i) + 2, "H1mass", H1MassDims(i))}
    /\ soI' = soI + 1
    /\ soPc' = IF soI + 1 < Len(soND) THEN "blocks" ELSE "returned"
    /\ UNCHANGED <<soTrue, soND, soH1, trueOffsetsSD>>
    /\ UNCHANGED <<fcVars, hxVars, opVars, ctVars, mpVars, glVars, bdVars, ioVars>>

SoNext ==
    \/ SdOperatorOffsets
    \/ SdOperatorBlocks

SpecSdOp == SoInit /\ [][SoNext]_vars

(***************************************************************************)
(* Specification of the constructor of DDMInterfaceOperator                *)
(***************************************************************************)
NDSizes == {1, 2}
H1Sizes == {1}
BdrySizes == {0, 1}

\* zero-based arrays
ArrayOf(n, V) == [0..(n - 1) -> V]

CtInit ==
    /\ numSubdomains \in 0..MaxSubdomains
    /\ numInterfaces \in 0..MaxInterfaces
    /\ pmeshSD \in ArrayOf(numSubdomains, BOOLEAN)
    /\ pmeshIF \in ArrayOf(numInterfaces, BOOLEAN)
    /\ localInterfaces \in
         UNION {[1..n -> [first : 0..(numSubdomains - 1), second : 0..(numSubdomains - 1)]] :
                   n \in 0..MaxLocalInterfaces}
    /\ interfaceLocalIndex \in ArrayOf(numInterfaces, -1..(Len(localInterfaces) - 1))
    /\ ifTrueND \in ArrayOf(numInterfaces, NDSizes \cup {0})
    /\ \A i \in 0..(numInterfaces - 1) : (ifTrueND[i] = 0) <=> ~pmeshIF[i]
    /\ ifTrueH1 \in ArrayOf(numInterfaces, H1Sizes \cup {0})
    /\ \A i \in 0..(numInterfaces - 1) : (ifTrueH1[i] = 0) <=> ~pmeshIF[i]
    /\ bdrySize \in ArrayOf(numSubdomains, BdrySizes)
    /\ \A m \in 0..(numSubdomains - 1) : ~pmeshSD[m] => bdrySize[m] = 0
    /\ sdTrueSize = [m \in 0..(numSubdomains - 1) |->
                        IF pmeshSD[m] THEN bdrySize[m] + 1 ELSE 0]
    /\ fespace = <<>>
    /\ ifespace = <<>>
    /\ globalInterfaceIndex = <<>>
    /\ subdomainLocalInterfaces = <<>>
    /\ block_trueOffsets = <<>>
    /\ size = 0
    /\ height = 0
    /\ width = 0
    /\ Asd = <<>>
    /\ ifBlocks = {}
    /\ sdBlocks = {}
    /\ ctI = 0
    /\ ctPc = "start"
    /\ ctFail = "none"
    /\ ctNullDeref = FALSE
    /\ FcIdle
    /\ HxIdle
    /\ OpIdle
    /\ MpIdle
    /\ GlIdle
    /\ BdIdle
    /\ SoIdle
    /\ IoIdle

\* lines 501 and 528-529: the InjectionOperator objects of subdomain m, one
\* per entry of subdomainLocalInterfaces[m]; the constructor of line 392
\* allocates gf and does not fill it
NewInjections(g, m, n) ==
    [p \in DOMAIN g \cup {<<m, i>> : i \in 1..n} |->
        IF p \in DOMAIN g THEN g[p] ELSE Junk]

\* the constructor stops at a failed MFEM_VERIFY
CtAbort(line) ==
    /\ ctPc' = "abort"
    /\ ctFail' = line

\* position after iteration ctI of a loop of n iterations
CtAdvance(n, here, next) ==
    /\ ctPc' = IF ctI + 1 < n THEN here ELSE next
    /\ ctI' = IF ctI + 1 < n THEN ctI + 1 ELSE 0

\* lines 433-452 and the allocations of lines 491-497
CtorStart ==
    /\ ctPc = "start"
    /\ IF ~(numSubdomains > 0)
       THEN /\ CtAbort("L433")
            /\ UNCHANGED <<fespace, ifespace, globalInterfaceIndex,
                           subdomainLocalInterfaces, block_trueOffsets, Asd>>
       ELSE /\ fespace' = [m \in 0..(numSubdomains - 1) |-> FALSE]
            /\ Asd' = [m \in 0..(numSubdomains - 1) |-> FALSE]
            /\ ifespace' = [i \in 0..(numInterfaces - 1) |-> FALSE]
            /\ globalInterfaceIndex' = [k \in 0..(Len(localInterfaces) - 1) |-> -1]
            /\ subdomainLocalInterfaces' = [m \in 0..(numSubdomains - 1) |-> <<>>]
            /\ block_trueOffsets' = [k \in 0..numSubdomains |-> 0]
            /\ ctPc' = IF numInterfaces > 0 THEN "loopIF" ELSE "loopSD1"
            /\ UNCHANGED ctFail
    /\ UNCHANGED <<size, height, width, ifBlocks, sdBlocks, ctI, ctNullDeref>>
    /\ UNCHANGED <<ctIn, fcVars, hxVars, opVars, mpVars, glVars, bdVars, soVars, ioVars>>

\* lines 454-487, iteration i = ctI
CtorInterface ==
    /\ ctPc = "loopIF"
    /\ LET i    == ctI
           ifli == interfaceLocalIndex[i]
           li   == localInterfaces[ifli + 1]
           pushed ==
               LET first == [subdomainLocalInterfaces EXCEPT ![li.first] = Append(@, i)]
               IN  [first EXCEPT ![li.second] = Append(@, i)]
       IN  /\ ifespace' = [ifespace EXCEPT ![i] = pmeshIF[i]]
           /\ IF (ifli >= 0) # pmeshIF[i]
              THEN /\ CtAbort("L476")
                   /\ UNCHANGED <<subdomainLocalInterfaces, globalInterfaceIndex, ctI>>
              ELSE IF ifli >= 0
              THEN /\ subdomainLocalInterfaces' = pushed
                   /\ IF globalInterfaceIndex[ifli] = i \/ globalInterfaceIndex[ifli] = -1
                      THEN /\ globalInterfaceIndex' = [globalInterfaceIndex EXCEPT ![ifli] = i]
                           /\ CtAdvance(numInterfaces, "loopIF", "loopSD1")
                           /\ UNCHANGED ctFail
                      ELSE /\ CtAbort("L483")
                           /\ UNCHANGED <<globalInterfaceIndex, ctI>>
              ELSE /\ CtAdvance(numInterfaces, "loopIF", "loopSD1")
                   /\ UNCHANGED <<subdomainLocalInterfaces, globalInterfaceIndex, ctFail>>
    /\ UNCHANGED <<fespace, block_trueOffsets, size, height, width, Asd, ifBlocks,
                   sdBlocks, ctNullDeref>>
    /\ UNCHANGED <<ctIn, fcVars, hxVars, opVars, mpVars, glVars, bdVars, soVars, ioVars>>

\* lines 499-532, iteration m = ctI.  With fespace[m] == NULL the call of
\* line 526 dereferences the null pointer at line 108 (fespace->GetParMesh())
\* and line 529 calls fespace[m]->GetTrueVSize(): either the run is stopped
\* there or it goes on with whatever the reads yield.
\* SetInterfaceToSurfaceDOFMap may itself stop construction; the
\* InjectionOperator constructor verifies height >= width.
CtorSubdomainInjections ==
    /\ ctPc = "loopSD1"
    /\ LET m    == ctI
           list == subdomainLocalInterfaces[m]
           add  == SdInterfaceSize(ifTrueND, ifTrueH1, list)
           null == list # <<>> /\ ~pmeshSD[m]
       IN  /\ fespace' = [fespace EXCEPT ![m] = pmeshSD[m]]
           /\ ctNullDeref' = (ctNullDeref \/ null)
           /\ \/ /\ null
                 /\ ctPc' = "crash"
                 /\ UNCHANGED <<size, block_trueOffsets, ctI, ctFail>>
              \/ /\ size' = size + add
                 /\ block_trueOffsets' = [block_trueOffsets EXCEPT ![m + 1] = @ + add]
                 /\ \/ /\ list # <<>>
                       /\ CtAbort("DOFMap")
                       /\ UNCHANGED ctI
                    \/ /\ null \/ \E k \in 1..Len(list) :
                                     ~(sdTrueSize[m] >= ifTrueND[list[k]])
                       /\ CtAbort("L395")
                       /\ UNCHANGED ctI
                    \/ /\ null \/ \A k \in 1..Len(list) :
                                     sdTrueSize[m] >= ifTrueND[list[k]]
                       /\ CtAdvance(numSubdomains, "loopSD1", "loopSD2")
                       /\ UNCHANGED ctFail
    /\ injGf' = IF ctPc' \in {"abort", "crash"}
                 THEN injGf
                 ELSE NewInjections(injGf, ctI, Len(subdomainLocalInterfaces[ctI]))
    /\ UNCHANGED <<ifespace, globalInterfaceIndex, subdomainLocalInterfaces, height,
                   width, Asd, ifBlocks, sdBlocks>>
    /\ UNCHANGED <<ctIn, fcVars, hxVars, opVars, mpVars, bdVars, soVars, ioVars>>
    /\ UNCHANGED <<multX, multY, prevX, prevY, multLimit, multFailed>>

\* lines 540-575, iteration m = ctI
CtorSubdomainOperators ==
    /\ ctPc = "loopSD2"
    /\ LET m == ctI
       IN  IF ~pmeshSD[m]
           THEN UNCHANGED <<size, block_trueOffsets, Asd>>
           ELSE /\ size' = size + bdrySize[m]
                /\ block_trueOffsets' = [block_trueOffsets EXCEPT ![m + 1] = @ + bdrySize[m]]
                /\ Asd' = [Asd EXCEPT ![m] = TRUE]
    /\ CtAdvance(numSubdomains, "loopSD2", "sizes")
    /\ UNCHANGED <<fespace, ifespace, globalInterfaceIndex, subdomainLocalInterfaces,
                   height, width, ifBlocks, sdBlocks, ctFail, ctNullDeref>>
    /\ UNCHANGED <<ctIn, fcVars, hxVars, opVars, mpVars, glVars, bdVars, soVars, ioVars>>

\* lines 577-581
CtorSizes ==
    /\ ctPc = "sizes"
    /\ height' = size
    /\ width' = size
    /\ block_trueOffsets' = PartialSum(block_trueOffsets)
    /\ IF block_trueOffsets'[numSubdomains] = size
       THEN /\ ctPc' = IF Len(localInterfaces) > 0 THEN "loopLI" ELSE "loopSDop"
            /\ UNCHANGED ctFail
       ELSE CtAbort("L581")
    /\ UNCHANGED <<fespace, ifespace, globalInterfaceIndex, subdomainLocalInterfaces,
                   size, Asd, ifBlocks, sdBlocks, ctI, ctNullDeref>>
    /\ UNCHANGED <<ctIn, fcVars, hxVars, opVars, mpVars, glVars, bdVars, soVars, ioVars>>

\* f with the value v at key k
WithEntry(f, k, v) ==
    [x \in DOMAIN f \cup {k} |-> IF x = k THEN v ELSE f[x]]

\* ND plus H1 true size of every global interface
IfBothSizes == [i \in DOMAIN ifTrueND |-> ifTrueND[i] + ifTrueH1[i]]

\* CreateInterfaceOperator(ili, orientation) with sd0, sd1 as lines 898-899
\* choose them: the offset arrays it fills and the operator it returns
CreateInterfaceOperator(ili, sd0, sd1) ==
    LET interfaceIndex == globalInterfaceIndex[ili]
        nd == ifTrueND[interfaceIndex]
        h1 == ifTrueH1[interfaceIndex]
        s0 == OsOf(subdomainLocalInterfaces[sd0], interfaceIndex, IfBothSizes)
        s1 == OsOf(subdomainLocalInterfaces[sd1], interfaceIndex, IfBothSizes)
        o  == InterfaceOffsets(nd, h1, bdrySize[sd0], bdrySize[sd1],
                               s0.os, Sd0osComp(s0.comp, nd, h1),
                               s1.os, Sd1osComp(s1.comp, nd, h1))
    IN  InterfaceOperator(o, nd, h1, bdrySize[sd0], bdrySize[sd1],
                          sdTrueSize[sd0], sdTrueSize[sd1])

\* lines 600-610, iteration ili = ctI, with the checks CreateInterfaceOperator
\* makes in both orientations (lines 901-904, 916-945) and its use of the
\* per-subdomain injections (lines 976-977, 1000).  globalInterfaceIndex[ili]
\* == -1 indexes ifespace outside the array: the pointer read there is
\* either found null by the MFEM_VERIFY of line 903 or dereferenced.
CtorLocalInterface ==
    /\ ctPc = "loopLI"
    /\ LET ili == ctI
           sd0 == localInterfaces[ili + 1].first
           sd1 == localInterfaces[ili + 1].second
           interfaceIndex == globalInterfaceIndex[ili]
       IN  IF ~(sd0 < sd1)
           THEN /\ CtAbort("L605")
                /\ UNCHANGED <<ifBlocks, ctI, ctNullDeref>>
           ELSE IF interfaceIndex = -1
           THEN /\ \/ CtAbort("L903")
                   \/ ctPc' = "crash" /\ UNCHANGED ctFail
                /\ UNCHANGED <<ifBlocks, ctI, ctNullDeref>>
           ELSE IF Occurrences(subdomainLocalInterfaces[sd0], interfaceIndex) > 1
           THEN /\ CtAbort("L920")
                /\ UNCHANGED <<ifBlocks, ctI, ctNullDeref>>
           ELSE IF Occurrences(subdomainLocalInterfaces[sd1], interfaceIndex) > 1
           THEN /\ CtAbort("L934")
                /\ UNCHANGED <<ifBlocks, ctI, ctNullDeref>>
           ELSE IF Occurrences(subdomainLocalInterfaces[sd0], interfaceIndex) = 0
           THEN /\ CtAbort("L944")
                /\ UNCHANGED <<ifBlocks, ctI, ctNullDeref>>
           ELSE IF Occurrences(subdomainLocalInterfaces[sd1], interfaceIndex) = 0
           THEN /\ CtAbort("L945")
                /\ UNCHANGED <<ifBlocks, ctI, ctNullDeref>>
           ELSE IF ~Asd[sd0] \/ ~Asd[sd1]
           THEN /\ ctNullDeref' = TRUE
                /\ ctPc' = "crash"
                /\ UNCHANGED <<ifBlocks, ctI, ctFail>>
           ELSE /\ ifBlocks' = ifBlocks \cup {<<sd0, sd1>>, <<sd1, sd0>>}
                /\ CtAdvance(Len(localInterfaces), "loopLI", "loopSDop")
                /\ UNCHANGED <<ctFail, ctNullDeref>>
    /\ IF ctPc' \in {"abort", "crash"}
       THEN UNCHANGED ioVars
       ELSE LET first  == localInterfaces[ctI + 1].first
                second == localInterfaces[ctI + 1].second
                op0 == CreateInterfaceOperator(ctI, first, second)
                op1 == CreateInterfaceOperator(ctI, second, first)
            IN  /\ ifOps' = WithEntry(WithEntry(ifOps, <<ctI, 0>>, op0), <<ctI, 1>>, op1)
                /\ ifOffsets' = WithEntry(ifOffsets, ctI, op1.offs)
    /\ UNCHANGED <<fespace, ifespace, globalInterfaceIndex, subdomainLocalInterfaces,
                   block_trueOffsets, size, height, width, Asd, sdBlocks>>
    /\ UNCHANGED <<ctIn, fcVars, hxVars, opVars, mpVars, glVars, bdVars, soVars>>

\* lines 618-659, iteration m = ctI; after the last one globalOp is built
CtorSubdomainBlock ==
    /\ ctPc = "loopSDop"
    /\ sdBlocks' = IF Asd[ctI] THEN sdBlocks \cup {ctI} ELSE sdBlocks
    /\ CtAdvance(numSubdomains, "loopSDop", "ready")
    /\ UNCHANGED <<fespace, ifespace, globalInterfaceIndex, subdomainLocalInterfaces,
                   block_trueOffsets, size, height, width, Asd, ifBlocks, ctFail,
                   ctNullDeref>>
    /\ UNCHANGED <<ctIn, fcVars, hxVars, opVars, mpVars, glVars, bdVars, soVars, ioVars>>

CtNext ==
    \/ CtorStart
    \/ CtorInterface
    \/ CtorSubdomainInjections
    \/ CtorSubdomainOperators
    \/ CtorSizes
    \/ CtorLocalInterface
    \/ CtorSubdomainBlock

SpecCtor == CtInit /\ [][CtNext]_vars

(***************************************************************************)
(* DDMInterfaceOperator::Mult (ddoper.hpp:662-679) on the operator the     *)
(* constructor has built.  A vector holds one value per block of           *)
(* block_trueOffsets; the operators of the blocks act on these values as   *)
(* linear maps.                                                            *)
(***************************************************************************)
XVals == {-1, 1}

BlockSize(m) == block_trueOffsets[m + 1] - block_trueOffsets[m]

ZeroVector == [m \in 0..(numSubdomains - 1) |-> 0]

\* the vectors of size `size`: an empty block holds no value
BlockVectors ==
    {ZeroVector} \cup
    {v \in [0..(numSubdomains - 1) -> XVals \cup {0}] :
        \A m \in DOMAIN v : (v[m] = 0) <=> (BlockSize(m) = 0)}

Neg(v) == [m \in DOMAIN v |-> 0 - v[m]]

\* mutant: an inverse action with a constant term
InvAsdActionAffine(m, v) == (m + 2) * v + 1

\* the block Transpose(inj) invAsd[m] inj of line 654: the action of the
\* solver on subdomain m is a linear map
InvAsdAction(m, v) == (m + 2) * v

\* the block CreateInterfaceOperator builds for row a and column b
\* (lines 945-1057): a linear map from block b to block a
CijAction(a, b, v) == (2 * a + b + 1) * v

RECURSIVE RowSum(_, _, _, _)
RowSum(blocks, a, x, b) ==
    IF b < 0 THEN 0
    ELSE (IF <<a, b>> \in blocks THEN CijAction(a, b, x[b]) ELSE 0)
         + RowSum(blocks, a, x, b - 1)

\* mutant: a row without blocks copies its part of the argument
InterfaceOpMultCopying(blocks, x) ==
    [a \in DOMAIN x |->
        IF \E b \in DOMAIN x : <<a, b>> \in blocks
        THEN RowSum(blocks, a, x, numSubdomains - 1)
        ELSE x[a]]

\* globalInterfaceOp->Mult: BlockOperator adds up the blocks set in a row
InterfaceOpMult(blocks, x) ==
    [a \in DOMAIN x |-> RowSum(blocks, a, x, numSubdomains - 1)]

\* globalSubdomainOp->Mult: only diagonal blocks are set (line 654)
SubdomainOpMult(blocks, z) ==
    [m \in DOMAIN z |-> IF m \in blocks THEN InvAsdAction(m, z[m]) ELSE 0]

\* mutant: the product taken in the other order
GlobalOpMultSwapped(x) ==
    LET sx == SubdomainOpMult(sdBlocks, x)
        cs == InterfaceOpMult(ifBlocks, sx)
    IN  [m \in DOMAIN x |-> 1 * cs[m] + 1 * x[m]]

\* globalOp of line 659: SumOperator(ProductOperator(globalSubdomainOp,
\* globalInterfaceOp), IdentityOperator(size), 1.0, 1.0)
GlobalOpMult(x) ==
    LET cx  == InterfaceOpMult(ifBlocks, x)
        scx == SubdomainOpMult(sdBlocks, cx)
    IN  [m \in DOMAIN x |-> 1 * scx[m] + 1 * x[m]]

\* the local interface whose global index is the k-th entry of
\* subdomainLocalInterfaces[m]
LocalInterfaceOf(m, k) ==
    CHOOSE ili \in DOMAIN globalInterfaceIndex :
        globalInterfaceIndex[ili] = subdomainLocalInterfaces[m][k]

\* gf of InterfaceToSurfaceInjection[m][k] after globalInterfaceOp->Mult(x).
\* BlockOperator runs the rows in order: block (first, second) applies the
\* transpose of the injection of `second` (line 414, gf gathered from x) and
\* the injection of `first` (line 404, gf set from the coupling's result);
\* block (second, first) then does the same with the roles exchanged.
GfAfterMult(x) ==
    [p \in DOMAIN injGf |->
        LET li == localInterfaces[LocalInterfaceOf(p[1], p[2]) + 1]
        IN  IF p[1] = li.first
            THEN x[li.first]
            ELSE CijAction(li.second, li.first, x[li.first])]

\* invAsd[m] is the GMRES solver of lines 564-573 with SetMaxIter(1000): a
\* solve ends converged or at the iteration limit; without a subdomain block
\* no solve is run
InnerSolveOutcomes(blocks) == IF blocks = {} THEN {FALSE} ELSE BOOLEAN

\* lines 662-679: globalOp->Mult(x, y) and nothing else; the function is
\* void and asks no solver whether it has converged
DDMInterfaceOperatorMult ==
    /\ ctPc = "ready"
    /\ \E x \in BlockVectors :
          /\ multX' = x
          /\ multY' = GlobalOpMult(x)
          /\ injGf' = GfAfterMult(x)
    /\ prevX' = multX
    /\ prevY' = multY
    /\ multLimit' \in InnerSolveOutcomes(sdBlocks)
    /\ multFailed' = FALSE
    /\ UNCHANGED <<ctVars, fcVars, hxVars, opVars, mpVars, bdVars, soVars, ioVars>>

GlNext ==
    \/ CtNext
    \/ DDMInterfaceOperatorMult

SpecGlobal == CtInit /\ [][GlNext]_vars

(***************************************************************************)
(* SetInterfaceToSurfaceDOFMap (ddoper.hpp:98-349)                         *)
(*                                                                         *)
(* The interface mesh is a strip of mpNIf triangles over the vertices      *)
(* 0..mpNIf+1; triangle i has the vertices i, i+1, i+2.  The subdomain     *)
(* mesh has one tetrahedron over every triangle: the counterparts of the   *)
(* triangle's vertices, numbered by mpRenum, and one vertex off the        *)
(* interface.  Interface face i is face i of pmesh and its neighbouring    *)
(* pmesh element is element i; sdMesh element i carries attribute i + 1.   *)
(***************************************************************************)
GridStep == 10 * VertexTol

NumIfVerts == mpNIf + 2

NumIfEdges == 2 * mpNIf + 1

NumSdVerts == 2 * mpNIf + 2

\* grid point of the k-th vertex of the strip
StripPoint(k) == <<(k \div 2) * GridStep, (k % 2) * GridStep, 0>>

\* ifMesh->GetVertex
IfVertex(v) == StripPoint(v)

\* ifMesh->GetElementVertices(i)
IfElementVertices(i) == <<i, i + 1, i + 2>>

\* ifMesh->GetFaceVertices(i), line 196
IfFaceVertices(i) == IfElementVertices(i)

\* ifMesh->GetEdgeVertices: edge 2k joins k and k+1, edge 2k+1 joins k and
\* k+2; the lower vertex comes first
IfEdgeVertices(e) ==
    IF e % 2 = 0 THEN <<e \div 2, (e \div 2) + 1>>
    ELSE <<(e - 1) \div 2, ((e - 1) \div 2) + 2>>

\* ifMesh->GetElementEdges(i): the edges (0,1), (1,2), (2,0) of the triangle
IfElementEdges(i) == <<2 * i, 2 * (i + 1), 2 * i + 1>>

\* the sdMesh vertex off the interface of element e
SdApex(e) == mpNIf + 2 + e

\* sdMesh->GetElementVertices(e)
SdElementVertices(e) ==
    IF mpApexLocal = 0
    THEN <<SdApex(e), mpRenum[e], mpRenum[e + 1], mpRenum[e + 2]>>
    ELSE <<mpRenum[e], mpRenum[e + 1], mpRenum[e + 2], SdApex(e)>>

\* local vertices of the four faces of a tetrahedron
TetFaceVert == << <<1, 2, 3>>, <<0, 3, 2>>, <<0, 1, 3>>, <<0, 2, 1>> >>

\* sdMesh->GetElementFaces(e)
SdElementFaces(e) == [j \in 1..4 |-> 4 * e + (j - 1)]

\* sdMesh->GetFaceVertices(f)
SdFaceVertices(f) ==
    LET ev == SdElementVertices(f \div 4)
    IN  [n \in 1..3 |-> ev[TetFaceVert[(f % 4) + 1][n] + 1]]

\* number of the sdMesh edge joining a and b
SdEdgeId(a, b) ==
    IF a < b THEN a * NumSdVerts + b ELSE b * NumSdVerts + a

\* sdMesh->GetFaceEdges(f)
SdFaceEdges(f) ==
    LET fv == SdFaceVertices(f)
    IN  <<SdEdgeId(fv[1], fv[2]), SdEdgeId(fv[2], fv[3]), SdEdgeId(fv[3], fv[1])>>

\* sdMesh->GetEdgeVertices: the lower vertex comes first
SdEdgeVertices(e) == <<e \div NumSdVerts, e % NumSdVerts>>

\* coordinates of the vertices of interface element i
IfElementCoords(i) == [n \in 1..3 |-> IfVertex(IfElementVertices(i)[n])]

\* coordinates of the vertices of every face of sdMesh element e
SdFaceCoords(e) ==
    [f \in Range(SdElementFaces(e)) |->
        [n \in 1..3 |-> mpSdVtx[SdFaceVertices(f)[n]]]]

\* fec->DofForGeometry
NvDofs == mpFec[1]

NeDofs == mpFec[2]

NfDofs == mpFec[3]

\* ifespace->GetVSize()
IfVSize == NumIfVerts * NvDofs + NumIfEdges * NeDofs + mpNIf * NfDofs

\* ifespace->GetVertexDofs(v)
IfVertexDofs(v) == [d \in 1..NvDofs |-> v * NvDofs + (d - 1)]

\* ifespace->GetEdgeDofs(e): the vertex DOFs of the two ends, then the DOFs
\* of the edge (comment of line 191)
IfEdgeDofs(e) ==
    IfVertexDofs(IfEdgeVertices(e)[1]) \o IfVertexDofs(IfEdgeVertices(e)[2])
        \o [d \in 1..NeDofs |-> NumIfVerts * NvDofs + e * NeDofs + (d - 1)]

\* ifespace->GetFaceDofs(i): the DOFs inside the face
IfFaceDofs(i) ==
    [d \in 1..NfDofs |->
        NumIfVerts * NvDofs + NumIfEdges * NeDofs + i * NfDofs + (d - 1)]

\* first edge DOF and first face DOF of fespace
SdEdgeBase == NumSdVerts * NvDofs

SdFaceBase == SdEdgeBase + NumSdVerts * NumSdVerts * NeDofs

\* fespace->GetVertexDofs(v)
SdVertexDofs(v) == [d \in 1..NvDofs |-> v * NvDofs + (d - 1)]

\* fespace->GetEdgeDofs(e)
SdEdgeDofs(e) ==
    SdVertexDofs(SdEdgeVertices(e)[1]) \o SdVertexDofs(SdEdgeVertices(e)[2])
        \o [d \in 1..NeDofs |-> SdEdgeBase + e * NeDofs + (d - 1)]

\* fespace->GetFaceDofs(f)
SdFaceDofs(f) == [d \in 1..NfDofs |-> SdFaceBase + f * NfDofs + (d - 1)]

\* the sdMesh vertices of the vertex, edge or face that carries the DOF
SdDofVertices(dof) ==
    IF dof < SdEdgeBase THEN {dof \div NvDofs}
    ELSE IF dof < SdFaceBase
         THEN Range(SdEdgeVertices((dof - SdEdgeBase) \div NeDofs))
         ELSE Range(SdFaceVertices((dof - SdFaceBase) \div NfDofs))

\* the DOF belongs to another process: it touches the interface vertex
\* whose counterpart is mpUnowned
SdDofUnowned(dof) == mpUnowned \in SdDofVertices(dof)

\* fespace->GetLocalTDofNumber: the owned DOFs are numbered consecutively,
\* the others give -1
SdLocalTDof(dof) ==
    IF SdDofUnowned(dof) THEN -1
    ELSE Cardinality({u \in 0..(dof - 1) : ~SdDofUnowned(u)})

RECURSIVE Flatten(_)
\* the lists of ss one after the other
Flatten(ss) == IF ss = <<>> THEN <<>> ELSE Head(ss) \o Flatten(Tail(ss))

\* lines 226-235, 303-312, 325-334: one write per DOF of the pair of DOF
\* lists whose subdomain DOF is a true DOF; line is the MFEM_VERIFY that
\* guards the write
DofWrites(ifdofs, sddofs, line) ==
    LET all == [d \in 1..Len(ifdofs) |->
                   [fail |-> "none", dof |-> ifdofs[d],
                    tdof |-> SdLocalTDof(sddofs[d]), line |-> line]]
        IsTrue(w) == w.tdof >= 0
    IN  SelectSeq(all, IsTrue)

\* a failing MFEM_VERIFY in the sequence of steps of a pass
FailStep(line) == <<[fail |-> line, dof |-> -1, tdof |-> -1, line |-> line]>>

\* lines 195-240: the writes and failures of the vertex pass in the order
\* of the loops over j and k
VertexPass(i, f) ==
    LET ifVert == IfFaceVertices(i)
        sdVert == SdFaceVertices(f)
        Eq(j, k) == VerticesEqual(IfVertex(ifVert[j]), mpSdVtx[sdVert[k]])
    IN  Flatten([j \in 1..Len(ifVert) |->
            Flatten([k \in 1..Len(sdVert) |->
                IF Eq(j, k)
                THEN DofWrites(IfVertexDofs(ifVert[j]), SdVertexDofs(sdVert[k]), "L232")
                ELSE <<>>])
            \o (IF \E k \in 1..Len(sdVert) : Eq(j, k) THEN <<>> ELSE FailStep("L239"))])

\* lines 272-287: the two ends are compared in the order of the two lists
EdgesMatch(ifVert, sdVert) ==
    \A v \in 1..2 : VerticesEqual(IfVertex(ifVert[v]), mpSdVtx[sdVert[v]])

\* lines 250-313: the writes and failures of the edge pass
EdgePass(i, f) ==
    LET ifEdge == IfElementEdges(i)
        sdEdge == SdFaceEdges(f)
        K(j) == {k \in 1..Len(sdEdge) :
                    EdgesMatch(IfEdgeVertices(ifEdge[j]), SdEdgeVertices(sdEdge[k]))}
    IN  Flatten([j \in 1..Len(ifEdge) |->
            IF Cardinality(K(j)) > 1 THEN FailStep("L291")
            ELSE IF K(j) = {} THEN FailStep("L296")
            ELSE DofWrites(IfEdgeDofs(ifEdge[j]),
                           SdEdgeDofs(sdEdge[CHOOSE k \in K(j) : TRUE]), "L309")])

\* lines 320-334: the writes of the face pass
FacePass(i, f) == DofWrites(IfFaceDofs(i), SdFaceDofs(f), "L331")

RECURSIVE RunPassUnverified(_, _, _)
\* mutant: the writes are not guarded by the MFEM_VERIFY
RunPassUnverified(steps, k, map) ==
    IF k > Len(steps) THEN [dofmap |-> map, fail |-> "none"]
    ELSE IF steps[k].fail # "none" THEN [dofmap |-> map, fail |-> steps[k].fail]
    ELSE RunPassUnverified(steps, k + 1, [map EXCEPT ![steps[k].dof] = steps[k].tdof])

RECURSIVE RunPass(_, _, _)
\* the steps of a pass from the k-th on: a write happens only if
\* dofmap[ifdofs[d]] == sdtdof || dofmap[ifdofs[d]] == -1, and the first
\* failing MFEM_VERIFY ends the run
RunPass(steps, k, map) ==
    IF k > Len(steps) THEN [dofmap |-> map, fail |-> "none"]
    ELSE IF steps[k].fail # "none" THEN [dofmap |-> map, fail |-> steps[k].fail]
    ELSE IF ~(map[steps[k].dof] = steps[k].tdof \/ map[steps[k].dof] = -1)
         THEN [dofmap |-> map, fail |-> steps[k].line]
    ELSE RunPass(steps, k + 1, [map EXCEPT ![steps[k].dof] = steps[k].tdof])

\* the steps of the pass at position pc for interface face i and sdMesh
\* face f; a pass whose geometry carries no DOF is skipped
PassSteps(pc, i, f) ==
    CASE pc = "vertex" -> IF NvDofs > 0 THEN VertexPass(i, f) ELSE <<>>
      [] pc = "edge"   -> IF NeDofs > 0 THEN EdgePass(i, f) ELSE <<>>
      [] pc = "face"   -> IF NfDofs > 0 THEN FacePass(i, f) ELSE <<>>

(***************************************************************************)
(* Specification of SetInterfaceToSurfaceDOFMap                            *)
(***************************************************************************)
FecDofs == {0, 1}

\* DOFs per vertex, edge and face of the collections: at least one DOF on
\* the vertices or the edges
FecKinds == {k \in FecDofs \X FecDofs \X FecDofs : k[1] + k[2] > 0}

\* numberings of the counterparts of the interface vertices in sdMesh
Renumberings(n) ==
    {[k \in 0..(n - 1) |-> k],
     [k \in 0..(n - 1) |-> (n - 1) - k],
     [k \in 0..(n - 1) |-> (k + 1) % n]}

\* displacements of one coordinate of one subdomain vertex
MapDeltas == {VertexTol, VertexTol + 1}

\* sdMesh vertex table: counterparts on the grid, the off-interface vertex
\* of element e either far from the interface or within the tolerance of
\* the third vertex of triangle e
SdVertexTable(n, renum, sliver) ==
    [u \in 0..(2 * n + 1) |->
        IF u >= n + 2
        THEN IF sliver
             THEN <<StripPoint(u - n)[1], StripPoint(u - n)[2], VertexTol>>
             ELSE <<StripPoint(u - n - 2)[1], StripPoint(u - n - 2)[2], GridStep>>
        ELSE StripPoint(CHOOSE k \in 0..(n + 1) : renum[k] = u)]

MpInit ==
    /\ mpNIf \in 1..MaxIfFaces
    /\ mpRenum \in Renumberings(mpNIf + 2)
    /\ \E sliver \in BOOLEAN :
         \/ mpSdVtx = SdVertexTable(mpNIf, mpRenum, sliver)
         \/ \E u \in 0..(mpNIf + 1), c \in 1..SpaceDim3, d \in MapDeltas :
                mpSdVtx = Perturbed(SdVertexTable(mpNIf, mpRenum, sliver), u, c, d)
    /\ mpApexLocal \in {0, 3}
    /\ mpNbrs \in [0..(mpNIf - 1) -> 0..2]
    /\ mpUnowned \in -1..(mpNIf + 1)
    /\ mpFec \in FecKinds
    /\ pmeshFaceToElem = [i \in 0..(mpNIf - 1) |-> -1]
    /\ dofmap = [d \in 0..(IfVSize - 1) |-> -1]
    /\ mpI = 0
    /\ sdMeshFace = -1
    /\ mpPc = "build"
    /\ mpFail = "none"
    /\ FcIdle
    /\ HxIdle
    /\ OpIdle
    /\ CtIdle
    /\ GlIdle
    /\ BdIdle
    /\ SoIdle
    /\ IoIdle

MpAbort(line) ==
    /\ mpPc' = "abort"
    /\ mpFail' = line

\* ++it, ++i of line 151
MpNextFace ==
    /\ mpI' = mpI + 1
    /\ mpPc' = IF mpI + 1 < mpNIf THEN "search" ELSE "done"

\* the pmesh element the mesh family puts on interface face i
PmeshElemOnFace(i) == i

\* mutant: a further element on a face replaces the one recorded
SecondElementReplaces(nbrs) == FALSE

\* line 126: an element with sdAttribute has a face that is already a key of
\* pmeshFaceToElem
SecondElementFound(nbrs) == \E i \in DOMAIN nbrs : nbrs[i] > 1

\* lines 110-147: pmeshFaceToElem and pmeshElemToSDmesh
MapFaceToElem ==
    /\ mpPc = "build"
    /\ IF SecondElementFound(mpNbrs)
       THEN /\ MpAbort("L126")
            /\ UNCHANGED pmeshFaceToElem
       ELSE /\ pmeshFaceToElem' =
                  [i \in 0..(mpNIf - 1) |->
                      IF mpNbrs[i] >= 1 THEN PmeshElemOnFace(i) ELSE -1]
            /\ mpPc' = "search"
            /\ UNCHANGED mpFail
    /\ UNCHANGED <<mpIn, dofmap, mpI, sdMeshFace, fcVars, hxVars, opVars, ctVars,
                   glVars, bdVars, soVars, ioVars>>

\* mutant: the MFEM_VERIFY commented out at line 160 is in force
MapSkipFaceVerified ==
    /\ MpAbort("L160")
    /\ UNCHANGED <<sdMeshFace, mpI>>

\* lines 163-164: continue
MapSkipFace ==
    /\ MpNextFace
    /\ UNCHANGED <<sdMeshFace, mpFail>>

\* lines 153-188
MapFaceSearch ==
    /\ mpPc = "search"
    /\ IF pmeshFaceToElem[mpI] = -1
       THEN MapSkipFace
       ELSE LET sdMeshElem == pmeshFaceToElem[mpI]
                found == SdMeshFaceSearch(SdFaceCoords(sdMeshElem),
                                          SdElementFaces(sdMeshElem),
                                          IfElementCoords(mpI))
            IN  /\ sdMeshFace' = found
                /\ IF found >= 0
                   THEN mpPc' = "vertex" /\ UNCHANGED mpFail
                   ELSE MpAbort("L188")
                /\ UNCHANGED mpI
    /\ UNCHANGED <<mpIn, pmeshFaceToElem, dofmap, fcVars, hxVars, opVars, ctVars,
                   glVars, bdVars, soVars, ioVars>>

\* one of the three passes of lines 190-335
MpPass(here, next) ==
    /\ mpPc = here
    /\ LET r == RunPass(PassSteps(here, mpI, sdMeshFace), 1, dofmap)
       IN  /\ dofmap' = r.dofmap
           /\ IF r.fail # "none"
              THEN MpAbort(r.fail) /\ UNCHANGED mpI
              ELSE /\ UNCHANGED mpFail
                   /\ IF next = "search" THEN MpNextFace
                      ELSE mpPc' = next /\ UNCHANGED mpI
    /\ UNCHANGED <<mpIn, pmeshFaceToElem, sdMeshFace, fcVars, hxVars, opVars, ctVars,
                   glVars, bdVars, soVars, ioVars>>

\* lines 192-241
MapVertexDofs == MpPass("vertex", "edge")

\* lines 244-314
MapEdgeDofs == MpPass("edge", "face")

\* lines 317-335
MapFaceDofs == MpPass("face", "search")

MpNext ==
    \/ MapFaceToElem
    \/ MapFaceSearch
    \/ MapVertexDofs
    \/ MapEdgeDofs
    \/ MapFaceDofs

SpecMap == MpInit /\ [][MpNext]_vars

\* every local interface lists its subdomains in increasing order
WellFormedInterfaces ==
    \A k \in 1..Len(localInterfaces) :
        localInterfaces[k].first < localInterfaces[k].second

\* the constructor has passed line 581
CtSized == ctPc \in {"loopLI", "loopSDop", "ready"}

\* the global interfaces that are local to this process
LocalIfs == {i \in 0..(numInterfaces - 1) : interfaceLocalIndex[i] >= 0}

RECURSIVE SumOver(_, _)
\* sum of f over the finite set S
SumOver(f, S) ==
    IF S = {} THEN 0
    ELSE LET x == CHOOSE y \in S : TRUE IN f[x] + SumOver(f, S \ {x})

BdryTotal == SumOver(bdrySize, {m \in 0..(numSubdomains - 1) : pmeshSD[m]})

IfTotal == SumOver([i \in LocalIfs |-> ifTrueND[i] + ifTrueH1[i]], LocalIfs)

(***************************************************************************)
(* C7: for every subdomain whose mesh is null, construction completes      *)
(* without dereferencing fespace[m], tdofsBdryInjection[m] or any other    *)
(* null per-subdomain object, also when the subdomain is the first or      *)
(* second subdomain of a local interface.  Stated for local interfaces     *)
(* with first < second.                                                    *)
(***************************************************************************)
C7_NullSubdomainNeverDereferenced ==
    WellFormedInterfaces =>
        /\ ~ctNullDeref
        /\ ctPc = "crash" => \A m \in 0..(numSubdomains - 1) : pmeshSD[m]

(***************************************************************************)
(* C8 as claimed: height and width equal the sum of the boundary true-DOF  *)
(* counts of the subdomains plus the sum, over the interfaces, of the two  *)
(* interface true-DOF counts, each interface counted once.                 *)
(***************************************************************************)
C8_Claimed ==
    ctPc = "ready" => (height = BdryTotal + IfTotal /\ width = BdryTotal + IfTotal)

(***************************************************************************)
(* C8 amended: height and width equal the sum of the boundary true-DOF     *)
(* counts of the locally owned subdomains plus twice the sum, over the     *)
(* local interfaces, of the two interface true-DOF counts: an interface is *)
(* counted once for each of its two subdomains.                            *)
(***************************************************************************)
C8_SizeCountsInterfacesTwice ==
    CtSized => (height = BdryTotal + 2 * IfTotal /\ width = BdryTotal + 2 * IfTotal)

C8_Witness ==
    /\ ctPc = "ready"
    /\ LocalIfs # {}
    /\ BdryTotal > 0
    /\ height = BdryTotal + 2 * IfTotal

(***************************************************************************)
(* C9: after construction block_trueOffsets has numSubdomains+1 entries,   *)
(* starts at 0, is non-decreasing and ends at the operator's height and    *)
(* width; the check of line 581 never fails.                               *)
(***************************************************************************)
C9_BlockOffsets ==
    /\ ctFail # "L581"
    /\ CtSized =>
         /\ DOMAIN block_trueOffsets = 0..numSubdomains
         /\ block_trueOffsets[0] = 0
         /\ \A k \in 0..(numSubdomains - 1) :
               block_trueOffsets[k] <= block_trueOffsets[k + 1]
         /\ block_trueOffsets[numSubdomains] = height
         /\ block_trueOffsets[numSubdomains] = width

C9_Witness ==
    /\ ctPc = "ready"
    /\ numSubdomains = 2
    /\ 0 < block_trueOffsets[1]
    /\ block_trueOffsets[1] < block_trueOffsets[2]
    /\ block_trueOffsets[2] = height

\* the steps of the pass the function is about to run
StepsHere == PassSteps(mpPc, mpI, sdMeshFace)

\* every entry set before a step keeps its value
EntriesKept ==
    \A d \in DOMAIN dofmap : dofmap[d] # -1 => dofmap'[d] = dofmap[d]

\* every value the pass attempted to write is in its entry after the step
AttemptsInPlace ==
    LET steps == StepsHere
    IN  \A k \in 1..Len(steps) :
            steps[k].fail = "none" => dofmap'[steps[k].dof] = steps[k].tdof

\* the pass attempted to write a value into an entry holding another one
ConflictingAttempt ==
    LET steps == StepsHere
    IN  \E k \in 1..Len(steps) :
            /\ steps[k].fail = "none"
            /\ dofmap'[steps[k].dof] \notin {-1, steps[k].tdof}

\* a step of the vertex, edge or face pass
PassStep ==
    /\ mpPc \in {"vertex", "edge", "face"}
    /\ mpPc' # mpPc

\* C2: in SetInterfaceToSurfaceDOFMap a dofmap entry that holds a
\* non-sentinel value never changes, and a vertex, edge or face pass that
\* attempts to write a value is either aborted or leaves exactly that value
\* in the entry, so an attempt to write a different non-sentinel value
\* aborts; an abort at one of the guards of the writes stems from such an
\* attempt.
C2_EntriesWrittenOnce ==
    [][PassStep =>
          (/\ EntriesKept
           /\ (mpPc' # "abort" => AttemptsInPlace)
           /\ ((mpPc' = "abort" /\ mpFail' \in {"L232", "L309", "L331"})
                  => ConflictingAttempt))]_vars

\* an edge pass was aborted on a conflicting write while the entries
\* written before are still in place
C2_Witness ==
    /\ mpPc = "abort"
    /\ mpFail = "L309"
    /\ \E d \in DOMAIN dofmap : dofmap[d] # -1

\* number of faces of the element next to interface face mpI that coincide
\* with it
CoincidingHere ==
    NumCoinciding(SdFaceCoords(pmeshFaceToElem[mpI]),
                  SdElementFaces(pmeshFaceToElem[mpI]),
                  IfElementCoords(mpI))

\* C3: when the face search of SetInterfaceToSurfaceDOFMap has gone through
\* for an interface face with a neighbouring element, exactly one face of
\* that element coincides with the interface face.
C3_ExactlyOneFaceCoincides ==
    mpPc \in {"vertex", "edge", "face"} => CoincidingHere = 1

\* the ambient positions some mapped full DOF targets
Targeted(id) == {id[i] : i \in DOMAIN id}

(***************************************************************************)
(* C1: Mult and MultTranspose of InjectionOperator index the ambient       *)
(* vector only at positions in [0, height), also when entries of the       *)
(* table are -1; Mult leaves every ambient position that no mapped full    *)
(* DOF targets equal to zero; an unmapped entry is not an error.           *)
(***************************************************************************)
C1_UnmappedEntriesHarmless ==
    opKind = "full" =>
        /\ ~opOob
        /\ opPc # "crash"
        /\ opPc \in {"mult", "done"} =>
              \A p \in 0..(opHeight - 1) : p \notin Targeted(opId) => opY[p] = 0

(***************************************************************************)
(* C10: for SetInjectionOperator, Mult writes the i-th compact entry to    *)
(* the ambient position given by the i-th element of the ordered index     *)
(* set and zero everywhere else, distinct compact vectors give distinct    *)
(* ambient vectors, and MultTranspose(Mult(x)) = x.                        *)
(***************************************************************************)
C10_SetInjectionEmbedding ==
    (opKind = "set" /\ opPc \in {"mult", "done"}) =>
        /\ \A i \in 0..(opWidth - 1) : opY[SetNth(opSet, i)] = opX[i]
        /\ \A p \in 0..(opHeight - 1) : p \notin opSet => opY[p] = 0
        /\ \A x2 \in VecsOf(opWidth, Vals) :
              x2 # opX => SetInjMult(opSet, x2, JunkVec(opHeight)) # opY
        /\ (opPc = "done" /\ opW = opY) => opZ = opX

C10_Witness ==
    /\ opKind = "set"
    /\ opPc = "done"
    /\ opSet = {0, 2}
    /\ opX[0] # opX[1]
    /\ opW = opY
    /\ opZ = opX

\* every entry of the table is an index of the ambient vector
AllMapped == OutOfRange(opId, opHeight) = {}

\* no two full DOFs are mapped to the same ambient index
TableInjective == \A i, j \in DOMAIN opId : i # j => opId[i] # opId[j]

(***************************************************************************)
(* C11 as claimed: for InjectionOperator MultTranspose(Mult(x)) = x        *)
(* whenever every full DOF of the interface space is mapped.               *)
(***************************************************************************)
C11_Claimed ==
    (opKind = "full" /\ opPc = "done" /\ opW = opY /\ AllMapped) => opZ = opX

(***************************************************************************)
(* C11: for InjectionOperator MultTranspose(Mult(x)) = x whenever every    *)
(* full DOF of the interface space is mapped and no two full DOFs are      *)
(* mapped to the same ambient index.                                       *)
(***************************************************************************)
C11_RoundTripInjective ==
    (opKind = "full" /\ opPc = "done" /\ opW = opY /\ AllMapped /\ TableInjective)
        => opZ = opX

C11_Witness ==
    /\ opKind = "full"
    /\ opPc = "done"
    /\ opW = opY
    /\ AllMapped
    /\ TableInjective
    /\ opId = [i \in 0..1 |-> 1 - i]
    /\ \E i \in DOMAIN opOwned : ~opOwned[i]
    /\ \E t \in DOMAIN opX : opX[t] # 0
    /\ opZ = opX

(***************************************************************************)
(* C12: for both injection operators the inner product of Mult(x) with y   *)
(* equals the inner product of x with MultTranspose(y), for every compact  *)
(* vector x and ambient vector y.                                          *)
(***************************************************************************)
C12_ExactTranspose ==
    (opPc = "done" /\ ~opOob) =>
        Dot(opY, opW, opHeight) = Dot(opX, opZ, opWidth)

\* the compact dimension the constructor was given
CompactDim == IF opKind = "set" THEN Cardinality(opSet) ELSE TrueVSize(opOwned)

(***************************************************************************)
(* C13: construction of either injection operator fails exactly when the   *)
(* height is smaller than the compact dimension (size of the index set,    *)
(* true-DOF count of the interface space); otherwise it succeeds with      *)
(* width equal to the compact dimension and height >= width.               *)
(***************************************************************************)
C13_ConstructionChecksSizes ==
    opPc \in {"built", "abort"} =>
        /\ (opPc = "abort") <=> (opHeight < CompactDim)
        /\ opPc = "built" => (opWidth = CompactDim /\ opHeight >= opWidth)

C13_Witness ==
    /\ opKind = "set"
    /\ opPc = "abort"
    /\ opHeight > 0
    /\ Cardinality(opSet) = opHeight + 1

\* the ordered pairs of subdomains some local interface joins
InterfacePairs ==
    UNION {{<<localInterfaces[k].first, localInterfaces[k].second>>,
            <<localInterfaces[k].second, localInterfaces[k].first>>} :
              k \in DOMAIN localInterfaces}

\* what the blocks set in row m of globalInterfaceOp make of x
CoupledInto(m, x) ==
    LET cols == {b \in DOMAIN x : <<m, b>> \in ifBlocks}
        RECURSIVE Add(_)
        Add(B) == IF B = {} THEN 0
                  ELSE LET b == CHOOSE c \in B : TRUE
                       IN  CijAction(m, b, x[b]) + Add(B \ {b})
    IN  Add(cols)

\* Mult has been called on the operator
MultCalled == ctPc = "ready" /\ multX # <<>>

(***************************************************************************)
(* C14: DDMInterfaceOperator::Mult computes y = x + S(C(x)), where S has   *)
(* only diagonal blocks, block (m,m) being present exactly for the locally *)
(* owned subdomains m, and C has only off-diagonal blocks: block (a,b) is  *)
(* present only if a # b and some local interface joins a and b, and both  *)
(* (sd0,sd1) and (sd1,sd0) are present for each local interface.           *)
(***************************************************************************)
C14_MultIsIdentityPlusSC ==
    MultCalled =>
        /\ sdBlocks = {m \in DOMAIN pmeshSD : pmeshSD[m]}
        /\ \A p \in ifBlocks : p[1] # p[2] /\ p \in InterfacePairs
        /\ InterfacePairs \subseteq ifBlocks
        /\ multY = [m \in DOMAIN multX |->
                      multX[m] + (IF m \in sdBlocks
                                  THEN InvAsdAction(m, CoupledInto(m, multX))
                                  ELSE 0)]

C14_Witness ==
    /\ MultCalled
    /\ ifBlocks = {<<0, 1>>, <<1, 0>>}
    /\ sdBlocks = {0, 1}
    /\ multX = [m \in 0..1 |-> IF m = 0 THEN 1 ELSE -1]
    /\ multY # multX

(***************************************************************************)
(* C15: for a single subdomain with no interfaces the composite operator   *)
(* is the identity: Mult(x) yields y = x for every x.                      *)
(***************************************************************************)
C15_SingleSubdomainIdentity ==
    (MultCalled /\ numSubdomains = 1 /\ numInterfaces = 0) => multY = multX

C15_Witness ==
    /\ MultCalled
    /\ numSubdomains = 1
    /\ numInterfaces = 0
    /\ sdBlocks = {0}
    /\ multX[0] = 1
    /\ multY = multX

C17_MultLeavesComponents == [][DDMInterfaceOperatorMult => injGf' = injGf]_vars

FaceWithoutElement == mpPc = "search" /\ pmeshFaceToElem[mpI] = -1

(***************************************************************************)
(* C19: an interface face without a neighbouring element of the subdomain  *)
(* on this process is skipped without an abort and without a write to      *)
(* dofmap: the dofmap after the face equals the dofmap before it.          *)
(***************************************************************************)
C19_FaceWithoutElementSkipped ==
    [][FaceWithoutElement =>
          (dofmap' = dofmap /\ mpFail' = "none" /\ mpPc' # "abort" /\ mpI' = mpI + 1)]_vars

C19_Witness ==
    /\ mpPc = "done"
    /\ mpFail = "none"
    /\ mpNIf = 2
    /\ pmeshFaceToElem[0] # -1
    /\ pmeshFaceToElem[1] = -1
    /\ \E d \in DOMAIN dofmap : dofmap[d] # -1
    /\ \E d \in DOMAIN dofmap : dofmap[d] = -1

(***************************************************************************)
(* C20: FacesCoincideGeometrically returns false whenever the two faces    *)
(* have different vertex counts, never aborts, and modifies neither mesh.  *)
(***************************************************************************)
C20_SizeMismatchReturnsFalse ==
    [][fcPc = "ready" =>
          /\ fcPc' = "returned"
          /\ fcVol' = fcVol
          /\ fcSurf' = fcSurf
          /\ Len(fcVol) # Len(fcSurf) => fcRet' = FALSE]_vars

C20_Witness ==
    /\ fcPc = "returned"
    /\ Len(fcVol) # Len(fcSurf)
    /\ \A i \in 1..Len(fcVol) : \E j \in 1..Len(fcSurf) : VerticesEqual(fcVol[i], fcSurf[j])
    /\ fcRet = FALSE

\* the true DOFs of the DOFs the boundary elements report
BoundaryTrueDofs ==
    {t \in 0..(TrueVSize(bdOwned) - 1) :
        \E be \in DOMAIN bdDofs : \E i \in DOMAIN bdDofs[be] :
            LET d == bdDofs[be][i]
                f == IF d < 0 THEN -1 - d ELSE d
            IN  bdOwned[f] /\ LocalTDof(bdOwned, f) = t}

(***************************************************************************)
(* C21: FindBoundaryTrueDOFs returns exactly the true-DOF indices of the   *)
(* DOFs of the boundary elements (a negative index d decoded as -1-d) that *)
(* this process owns; DOFs of other processes are skipped and duplicates   *)
(* collapse.                                                               *)
(***************************************************************************)
C21_BoundaryTrueDofs == bdPc = "returned" => tdofsBdry = BoundaryTrueDofs

C21_Witness ==
    /\ bdPc = "returned"
    /\ Len(bdDofs) = 2
    /\ bdOwned = [f \in 0..1 |-> f = 1]
    /\ bdDofs[1] = [i \in 1..2 |-> IF i = 1 THEN -2 ELSE 0]
    /\ bdDofs[2] = [i \in 1..2 |-> IF i = 1 THEN 1 ELSE -1]
    /\ tdofsBdry = {0}

\* size of block k of trueOffsetsSD
SdBlockSize(k) == trueOffsetsSD[k + 2] - trueOffsetsSD[k + 1]

\* a block has the dimensions of the place it is set at
BlockFits(b) ==
    /\ b.dims.h = SdBlockSize(b.row)
    /\ b.dims.w = SdBlockSize(b.col)
    /\ "inner" \in DOMAIN b.dims => b.dims.inner

(***************************************************************************)
(* C22 as claimed: in the operator of CreateSubdomainOperator the surface  *)
(* injection composed with the mixed gradient matrix is at block (0,       *)
(* f-block of interface i), and every block set has the dimensions of its  *)
(* row and column blocks under trueOffsetsSD.                              *)
(***************************************************************************)
C22_Claimed ==
    soPc = "returned" =>
        /\ \A i \in 0..(Len(soND) - 1) :
              \E b \in soBlocks : b.what = "InjGrad" /\ b.row = 0 /\ b.col = (2 * i) + 1
        /\ \A b \in soBlocks : BlockFits(b)

(***************************************************************************)
(* C22: in the operator of CreateSubdomainOperator the surface injection   *)
(* composed with the mixed gradient matrix is at block (0, rho-block of    *)
(* interface i), and every block set has the dimensions of its row and     *)
(* column blocks under trueOffsetsSD (layout [u, f_0, rho_0, f_1, ...]).   *)
(***************************************************************************)
C22_GradientCouplingAtRhoBlock ==
    soPc = "returned" =>
        /\ \A i \in 0..(Len(soND) - 1) :
              /\ \E b \in soBlocks : b.what = "InjGrad" /\ b.row = 0 /\ b.col = (2 * i) + 2
              /\ SdBlockSize((2 * i) + 1) = soND[i + 1]
              /\ SdBlockSize((2 * i) + 2) = soH1[i + 1]
        /\ SdBlockSize(0) = soTrue
        /\ \A b \in soBlocks : BlockFits(b)

C22_Witness ==
    /\ soPc = "returned"
    /\ Len(soND) = 2
    /\ soND[2] = 2
    /\ soH1[2] = 3
    /\ \E b \in soBlocks : b.what = "InjGrad" /\ b.col = 4 /\ b.dims = [h |-> soTrue, w |-> 3, inner |-> TRUE]

(***************************************************************************)
(* C23: when a per-subdomain iterative solve reaches its iteration limit   *)
(* during a Mult of the composite operator, the failure is observable to   *)
(* the caller of Mult.                                                     *)
(***************************************************************************)
C23_IterationLimitReported == (MultCalled /\ multLimit) => multFailed

\* the lists of the subdomains that hold global interface i
ListsHolding(i) ==
    {m \in DOMAIN subdomainLocalInterfaces :
        Occurrences(subdomainLocalInterfaces[m], i) > 0}

(***************************************************************************)
(* C24: construction aborts for a local interface whose first subdomain    *)
(* index is not strictly less than its second, and it does so before that  *)
(* interface has been used to build any other structure.                   *)
(***************************************************************************)
C24_OrderCheckedBeforeUse ==
    ctFail = "L605" =>
        /\ ~(localInterfaces[ctI + 1].first < localInterfaces[ctI + 1].second)
        /\ ListsHolding(globalInterfaceIndex[ctI]) = {}

\* CreateInterfaceOperator(ili, 0) of line 608 is about to be called
InterfaceOperatorCalled ==
    /\ ctPc = "loopLI"
    /\ localInterfaces[ctI + 1].first < localInterfaces[ctI + 1].second

(***************************************************************************)
(* C29: whenever CreateInterfaceOperator or CreateCij is called for a      *)
(* local interface index ili, globalInterfaceIndex[ili] is a global        *)
(* interface index in [0, numInterfaces) with                              *)
(* interfaceLocalIndex[globalInterfaceIndex[ili]] = ili, and no two global *)
(* interfaces share one local index.                                       *)
(***************************************************************************)
C29_GlobalInterfaceIndexValid ==
    InterfaceOperatorCalled =>
        /\ globalInterfaceIndex[ctI] \in 0..(numInterfaces - 1)
        /\ interfaceLocalIndex[globalInterfaceIndex[ctI]] = ctI
        /\ \A i, j \in 0..(numInterfaces - 1) :
              (interfaceLocalIndex[i] >= 0 /\ interfaceLocalIndex[i] = interfaceLocalIndex[j])
                  => i = j

\* the constructor has left the loop of lines 454-487 without an abort
AfterInterfaceLoop ==
    ctPc \in {"loopSD1", "loopSD2", "sizes", "loopLI", "loopSDop", "ready"}

StrictlyIncreasing(list) ==
    \A j, k \in 1..Len(list) : j < k => list[j] < list[k]

(***************************************************************************)
(* C30: after the interface loop of the constructor a global interface     *)
(* index i is in subdomainLocalInterfaces[m] if and only if interface i is *)
(* local and m is its first or second subdomain; it appears exactly once   *)
(* in each of those two lists, and every list is strictly increasing.      *)
(***************************************************************************)
C30_ListsMatchInterfaces ==
    AfterInterfaceLoop =>
        /\ \A m \in 0..(numSubdomains - 1) : \A i \in 0..(numInterfaces - 1) :
              LET li == localInterfaces[interfaceLocalIndex[i] + 1]
                  in == /\ pmeshIF[i]
                        /\ interfaceLocalIndex[i] >= 0
                        /\ m \in {li.first, li.second}
              IN  Occurrences(subdomainLocalInterfaces[m], i) = IF in THEN 1 ELSE 0
        /\ \A m \in 0..(numSubdomains - 1) :
              StrictlyIncreasing(subdomainLocalInterfaces[m])

\* sd0 and sd1 of CreateInterfaceOperator(k[1], k[2]) (lines 898-899)
Sd0Of(k) ==
    IF k[2] = 0 THEN localInterfaces[k[1] + 1].first
    ELSE localInterfaces[k[1] + 1].second

Sd1Of(k) ==
    IF k[2] = 0 THEN localInterfaces[k[1] + 1].second
    ELSE localInterfaces[k[1] + 1].first

GlobalBlockSize(m) == block_trueOffsets[m + 1] - block_trueOffsets[m]

NonDecreasing(a) == \A j \in 1..(Len(a) - 1) : a[j] <= a[j + 1]

RECURSIVE SizesBefore(_, _, _)
\* the sizes of the interfaces listed before interface i in a subdomain's list
SizesBefore(list, i, k) ==
    IF k > Len(list) \/ list[k] = i THEN 0
    ELSE IfBothSizes[list[k]] + SizesBefore(list, i, k + 1)

\* the places of a subdomain's block vector: u on the boundary first, then
\* f and rho of each interface in the order of subdomainLocalInterfaces
UBlockOf(m) == 0..(bdrySize[m] - 1)

FBlockOf(m, i) ==
    LET start == bdrySize[m] + SizesBefore(subdomainLocalInterfaces[m], i, 1)
    IN  start..(start + ifTrueND[i] - 1)

RhoBlockOf(m, i) ==
    LET start == bdrySize[m] + SizesBefore(subdomainLocalInterfaces[m], i, 1)
                     + ifTrueND[i]
    IN  start..(start + ifTrueH1[i] - 1)

C28_OrientationZeroOffsetsKept ==
    \A ili \in DOMAIN ifOffsets :
        <<ili, 0>> \in DOMAIN ifOps => ifOffsets[ili] = ifOps[<<ili, 0>>].offs

DistinctPoints(f) == \A a, b \in 1..Len(f) : a # b => f[a] # f[b]

VertexSetsCoincide(f, e) ==
    /\ \A i \in 1..Len(f) : \E j \in 1..Len(e) : VerticesEqual(f[i], e[j])
    /\ \A j \in 1..Len(e) : \E i \in 1..Len(f) : VerticesEqual(e[j], f[i])

(***************************************************************************)
(* C27: in the edge pass an interface edge is matched to the edge of the   *)
(* matched subdomain face whose two ends coincide with its own two ends,   *)
(* whichever order each mesh lists the ends in: once the face search has   *)
(* found the coinciding face, every interface edge finds exactly one       *)
(* subdomain edge and neither check of the edge search aborts.             *)
(***************************************************************************)
C27_EdgeMatchedInEitherOrder ==
    (/\ sdMeshFace >= 0
     /\ VertexSetsCoincide(IfElementCoords(mpI),
                           SdFaceCoords(pmeshFaceToElem[mpI])[sdMeshFace]))
        => mpFail \notin {"L291", "L296"}

(***************************************************************************)
(* C4: FacesCoincideGeometrically returns true if and only if the two      *)
(* vertex sets coincide: every vertex of the volume face has a vertex of   *)
(* the surface element within the tolerance in each coordinate, and every  *)
(* vertex of the surface element has such a vertex of the volume face.     *)
(* Stated on faces with the same number of vertices, the vertices of each  *)
(* face being different points.                                            *)
(***************************************************************************)
C4_CoincideIffVertexSets ==
    (/\ fcPc = "returned"
     /\ Len(fcVol) = Len(fcSurf)
     /\ DistinctPoints(fcVol)
     /\ DistinctPoints(fcSurf))
        => (fcRet <=> VertexSetsCoincide(fcVol, fcSurf))

(***************************************************************************)
(* C5: two faces holding the same vertices coincide whatever the order of  *)
(* the vertices in each list, and perturbing one coordinate of one vertex  *)
(* of such a pair by more than the tolerance makes the function return     *)
(* false.  The second half is stated for pairs whose vertices are pairwise *)
(* separated by more than the tolerance.                                   *)
(***************************************************************************)
C5_SameVerticesCoincide ==
    /\ (fcPc = "returned" /\ fcPert = "none" /\ SameVertices(fcVol, fcSurf))
          => fcRet = TRUE
    /\ (fcPc = "returned" /\ fcPert = "separated") => fcRet = FALSE

(***************************************************************************)
(* C6 as claimed: with one subdomain-side vertex coordinate perturbed by   *)
(* 1e-10 the face still matches and construction proceeds; perturbed by    *)
(* 1e-6 it fails to match and construction aborts.                         *)
(***************************************************************************)
C6_Claimed ==
    /\ (hxPc \in {"matched", "abort"} /\ hxDelta = Pert1e10) => hxPc = "matched"
    /\ (hxPc \in {"matched", "abort"} /\ hxDelta = Pert1e6) => hxPc = "abort"

(***************************************************************************)
(* C6 amended: the face matches (and is the face found) exactly when the   *)
(* perturbation is at most the tolerance 1e-12, as for 1e-13; for 1e-10    *)
(* and for 1e-6 no face of the element matches and construction aborts.    *)
(***************************************************************************)
C6_ToleranceScenario ==
    hxPc \in {"matched", "abort"} =>
        /\ hxDelta <= VertexTol => (hxPc = "matched" /\ hxFace = 0)
        /\ hxDelta > VertexTol => (hxPc = "abort" /\ hxFace = -1)
        /\ hxDelta \in {Pert1e10, Pert1e6} => hxPc = "abort"

C6_Witness == hxPc = "abort" /\ hxDelta = Pert1e10 /\ hxIf # HexInterfaceFace(0)

=============================================================================
